---- MODULE Spec2Model ----
(***************************************************************************)
(* A model of the three MCP file servers of this repository: the Laravel   *)
(* server (src/unnamed/part_000) with its path sandbox, tree walker, text  *)
(* search, search-and-replace and single-file primitives, and the          *)
(* radius-directory and elite-quize servers.                               *)
(*                                                                         *)
(* Strings are TLA+ strings (TLC evaluates Len, \o and SubSeq on them), so *)
(* prefix, suffix and substring tests are computed on characters, as the   *)
(* JavaScript does.                                                        *)
(***************************************************************************)
EXTENDS Integers, Sequences, FiniteSets, TLC

VARIABLES
  fs,            \* the file system: absolute path -> node
  req,           \* the request being served (or last served)
  log,           \* resolvePath and fs calls of that request, in call order
  reply,         \* the payload returned for that request
  nops,          \* number of requests served so far
  pc,            \* "idle", or "scanning" while search_code's file reads are outstanding
  files,         \* search_code: the candidate files, in the walk's order
  pending,       \* search_code: indexes (into files) of the reads still outstanding
  results,       \* search_code: the per-file results pushed so far
  totalMatches,  \* search_code: the running match counter
  regex,         \* search_code: the shared RegExp object (atoms, flags, lastIndex)
                 \* and, in tested, the values lastIndex had when test was called
  order          \* search_code: the order in which the outstanding reads complete

scanVars == <<pc, files, pending, results, totalMatches, regex, order>>
vars == <<fs, req, log, reply, nops, pc, files, pending, results, totalMatches, regex,
          order>>

(***************************************************************************)
(* Strings                                                                 *)
(***************************************************************************)

CharAt(s, i) == SubSeq(s, i, i)

\* String.prototype.startsWith
StartsWith(s, p) == Len(p) <= Len(s) /\ SubSeq(s, 1, Len(p)) = p

\* String.prototype.endsWith
EndsWith(s, p) == Len(p) <= Len(s) /\ SubSeq(s, Len(s) - Len(p) + 1, Len(s)) = p

\* String.prototype.indexOf(p, from), 1-based; 0 when p does not occur at or after from
RECURSIVE IndexOfFrom(_, _, _)
IndexOfFrom(s, p, from) ==
  IF from + Len(p) - 1 > Len(s) THEN 0
  ELSE IF SubSeq(s, from, from + Len(p) - 1) = p THEN from
  ELSE IndexOfFrom(s, p, from + 1)

\* String.prototype.includes
Includes(s, p) == IndexOfFrom(s, p, 1) # 0

\* Canonicalize under the i flag, on the letters of the model
Upper == "ABCDEFGHIJKLMNOPQRSTUVWXYZ"
Lower == "abcdefghijklmnopqrstuvwxyz"
Canon(c) ==
  LET k == IndexOfFrom(Upper, c, 1) IN IF k = 0 THEN c ELSE CharAt(Lower, k)

\* String.prototype.split(sep) for a one-character separator: the pieces
\* between the positions of the separator
Split(s, sep) ==
  LET at     == {p \in 1..Len(s) : CharAt(s, p) = sep}
      cut(k) == IF k = 0 THEN 0
                ELSE IF k > Cardinality(at) THEN Len(s) + 1
                ELSE CHOOSE p \in at : Cardinality({q \in at : q < p}) = k - 1
  IN [k \in 1..(Cardinality(at) + 1) |-> SubSeq(s, cut(k - 1) + 1, cut(k) - 1)]

\* Array.prototype.join
RECURSIVE Join(_, _)
Join(parts, sep) ==
  IF Len(parts) = 0 THEN ""
  ELSE IF Len(parts) = 1 THEN parts[1]
  ELSE parts[1] \o sep \o Join(Tail(parts), sep)

(***************************************************************************)
(* node:path, POSIX flavour                                                *)
(***************************************************************************)

\* normalizeString: "." and empty segments dropped, ".." pops a segment
\* (above the root of an absolute path it is dropped)
RECURSIVE NormSegs(_, _)
NormSegs(segs, acc) ==
  IF Len(segs) = 0 THEN acc
  ELSE LET s == Head(segs) IN
       IF s = "" \/ s = "." THEN NormSegs(Tail(segs), acc)
       ELSE IF s = ".." THEN
         NormSegs(Tail(segs), IF Len(acc) = 0 THEN acc ELSE SubSeq(acc, 1, Len(acc) - 1))
       ELSE NormSegs(Tail(segs), Append(acc, s))

\* the segments of an absolute path
AbsSegs(p) == NormSegs(Split(p, "/"), <<>>)

\* path.resolve(from, to) with from absolute: an absolute `to` replaces from,
\* the result is normalized and has no trailing slash
pathResolve(from, to) ==
  "/" \o Join(AbsSegs(IF StartsWith(to, "/") THEN to ELSE from \o "/" \o to), "/")

\* path.join(a, b) with a absolute: plain concatenation, then normalization
\* (an absolute b does not replace a; a trailing slash is kept)
pathJoin(a, b) ==
  LET joined == IF b = "" THEN a ELSE a \o "/" \o b
      segs   == AbsSegs(joined)
      body   == "/" \o Join(segs, "/")
  IN IF EndsWith(joined, "/") /\ Len(segs) > 0 THEN body \o "/" ELSE body

\* path.dirname of an absolute path
pathDirname(p) ==
  LET segs == AbsSegs(p)
  IN IF Len(segs) <= 1 THEN "/" ELSE "/" \o Join(SubSeq(segs, 1, Len(segs) - 1), "/")

\* path.basename of an absolute path
pathBasename(p) ==
  LET segs == AbsSegs(p) IN IF Len(segs) = 0 THEN "" ELSE segs[Len(segs)]

\* length of the longest common prefix of two segment lists
RECURSIVE CommonLen(_, _)
CommonLen(a, b) ==
  IF Len(a) = 0 \/ Len(b) = 0 \/ Head(a) # Head(b) THEN 0
  ELSE 1 + CommonLen(Tail(a), Tail(b))

\* path.relative(from, to), both absolute
pathRelative(from, to) ==
  LET f == AbsSegs(from)
      t == AbsSegs(to)
      c == CommonLen(f, t)
      ups == [i \in 1..(Len(f) - c) |-> ".."]
  IN Join(ups \o SubSeq(t, c + 1, Len(t)), "/")

(***************************************************************************)
(* Laravel server: configuration                                           *)
(***************************************************************************)

\* process.env.LARAVEL_PROJECT_ROOT in the modelled deployment
PROJECT_ROOT == "/srv/app"

EXCLUDE_DIRS ==
  <<"node_modules", "vendor", ".git", ".idea",
    "storage/framework", "storage/logs", "bootstrap/cache">>

AccessDenied == "Path escapes project root - access denied"

Ok(v)  == [ok |-> TRUE, val |-> v]
Err(m) == [ok |-> FALSE, val |-> m]

\* resolvePath: the absolute path, or the thrown error
resolvePath(relativePath) ==
  LET absolutePath == pathResolve(PROJECT_ROOT, relativePath)
  IN IF ~StartsWith(absolutePath, PROJECT_ROOT)
     THEN Err(AccessDenied)
     ELSE Ok(absolutePath)

\* a path lies inside the project root: it is the root or below it
InsideRoot(abs) == abs = PROJECT_ROOT \/ StartsWith(abs, PROJECT_ROOT \o "/")

(***************************************************************************)
(* The file system and fs/promises                                         *)
(***************************************************************************)

Dir(entries)  == [kind |-> "dir", entries |-> entries, content |-> "", readable |-> TRUE]
File(content) == [kind |-> "file", entries |-> <<>>, content |-> content, readable |-> TRUE]
Locked(node)  == [node EXCEPT !.readable = FALSE]
BrokenLink    == [kind |-> "broken", entries |-> <<>>, content |-> "", readable |-> TRUE]

\* fs.readFile(p, "utf-8")
fsReadFile(f, p) ==
  IF p \notin DOMAIN f \/ f[p].kind = "broken" THEN Err("ENOENT")
  ELSE IF f[p].kind = "dir" THEN Err("EISDIR")
  ELSE IF ~f[p].readable THEN Err("EACCES")
  ELSE Ok(f[p].content)

\* fs.readdir(p, {withFileTypes: true}): the entries, each with its name and type
fsReaddir(f, p) ==
  IF p \notin DOMAIN f THEN Err("ENOENT")
  ELSE IF f[p].kind # "dir" THEN Err("ENOTDIR")
  ELSE IF ~f[p].readable THEN Err("EACCES")
  ELSE Ok([i \in 1..Len(f[p].entries) |->
             [name  |-> f[p].entries[i],
              isDir |-> f[pathJoin(p, f[p].entries[i])].kind = "dir"]])

\* fs.access(p)
fsAccess(f, p) ==
  IF p \in DOMAIN f /\ f[p].kind # "broken" THEN Ok("") ELSE Err("ENOENT")

\* fs.stat(p): the size in bytes; it follows a symbolic link, so a link
\* whose target is gone (kind "broken", listed by readdir as a non-directory)
\* fails
fsStat(f, p) ==
  IF p \notin DOMAIN f \/ f[p].kind = "broken" THEN Err("ENOENT")
  ELSE Ok(Len(f[p].content))

\* a new entry under its parent directory
AddNode(f, p, node) ==
  LET d == pathDirname(p)
  IN (p :> node) @@ [f EXCEPT ![d].entries = Append(@, pathBasename(p))]

\* fs.writeFile(p, content, "utf-8"): val is the file system afterwards
fsWriteFile(f, p, content) ==
  IF p \in DOMAIN f THEN
    IF f[p].kind = "dir" THEN Err("EISDIR")
    ELSE IF ~f[p].readable THEN Err("EACCES")
    ELSE Ok([f EXCEPT ![p] = File(content)])
  ELSE IF pathDirname(p) \notin DOMAIN f THEN Err("ENOENT")
  ELSE IF f[pathDirname(p)].kind # "dir" THEN Err("ENOTDIR")
  ELSE Ok(AddNode(f, p, File(content)))

\* fs.mkdir(p, {recursive: true}): val is the file system afterwards
RECURSIVE fsMkdirP(_, _)
fsMkdirP(f, p) ==
  IF p \in DOMAIN f THEN (IF f[p].kind = "dir" THEN Ok(f) ELSE Err("EEXIST"))
  ELSE LET up == fsMkdirP(f, pathDirname(p))
       IN IF ~up.ok THEN up ELSE Ok(AddNode(up.val, p, Dir(<<>>)))

\* fs.unlink(p): val is the file system afterwards
fsUnlink(f, p) ==
  IF p \notin DOMAIN f THEN Err("ENOENT")
  ELSE IF f[p].kind = "dir" THEN Err("EISDIR")
  ELSE LET d == pathDirname(p)
           g == [f EXCEPT ![d].entries = SelectSeq(@, LAMBDA n : n # pathBasename(p))]
       IN Ok([q \in DOMAIN f \ {p} |-> g[q]])

(***************************************************************************)
(* Laravel server: helpers                                                 *)
(***************************************************************************)

\* the call log: one event per resolvePath call and per fs call; arg is the
\* caller-supplied path the call was made for (NoArg when the operation takes none)
NoArg == "<none>"
Ev(op, arg, path) == [op |-> op, arg |-> arg, path |-> path, ok |-> TRUE]
ResolveEv(arg, r) ==
  [op |-> "resolvePath", arg |-> arg, path |-> IF r.ok THEN r.val ELSE "", ok |-> r.ok]

FsOps == {"readFile", "readdir", "access", "stat", "mkdir", "writeFile", "unlink"}

\* what a handler leaves behind: the file system, the calls made, the payload
Out(f, lg, rep) == [fs |-> f, log |-> lg, reply |-> rep]
Success(body) == [isError |-> FALSE, body |-> body]
\* the mutation of the catch that lets the error leave the handler
Failure_uncaught(message) == [uncaught |-> TRUE, error |-> message]

\* the catch of the dispatch boundary
Failure(message) == [isError |-> TRUE, body |-> "Error: " \o message]

\* shouldExclude
shouldExclude(filePath) ==
  \E i \in 1..Len(EXCLUDE_DIRS) : Includes(filePath, EXCLUDE_DIRS[i])

\* EXCLUDE_DIRS.includes(name)
IsExcludedName(name) == \E i \in 1..Len(EXCLUDE_DIRS) : EXCLUDE_DIRS[i] = name

NoFiles == [files |-> <<>>, log |-> <<>>]

\* getFilesRecursively's walk: the relative paths pushed and the readdir calls made
RECURSIVE walk(_, _, _, _)
RECURSIVE walkEntries(_, _, _, _, _)
walk(f, currentDir, extensions, arg) ==
  LET rd == fsReaddir(f, currentDir)
      ev == Ev("readdir", arg, currentDir)
  IN IF ~rd.ok THEN [files |-> <<>>, log |-> <<ev>>]      \* catch: skipped
     ELSE LET r == walkEntries(f, currentDir, rd.val, extensions, arg)
          IN [files |-> r.files, log |-> <<ev>> \o r.log]

walkEntries(f, currentDir, entries, extensions, arg) ==
  IF Len(entries) = 0 THEN NoFiles
  ELSE IF Len(entries) = 1 THEN
    LET entry        == Head(entries)
        fullPath     == pathJoin(currentDir, entry.name)
        relativePath == pathRelative(PROJECT_ROOT, fullPath)
    IN IF StartsWith(entry.name, ".") \/ shouldExclude(relativePath) THEN NoFiles
       ELSE IF entry.isDir THEN walk(f, fullPath, extensions, arg)
       ELSE IF \E i \in 1..Len(extensions) : EndsWith(entry.name, extensions[i])
            THEN [files |-> <<relativePath>>, log |-> <<>>]
       ELSE NoFiles
  ELSE
    \* the loop over the entries, first half and then second half
    LET mid   == Len(entries) \div 2
        first == walkEntries(f, currentDir, SubSeq(entries, 1, mid), extensions, arg)
        rest  == walkEntries(f, currentDir, SubSeq(entries, mid + 1, Len(entries)),
                             extensions, arg)
    IN [files |-> first.files \o rest.files, log |-> first.log \o rest.log]

getFilesRecursively(f, dir, extensions, arg) == walk(f, dir, extensions, arg)

\* formatSize: the loop over the units and toFixed (no decimal for B, one otherwise)
RECURSIVE Pow1024(_)
Pow1024(k) == IF k = 0 THEN 1 ELSE 1024 * Pow1024(k - 1)

RECURSIVE UnitIndex(_, _)
UnitIndex(bytes, k) ==
  IF bytes >= 1024 * Pow1024(k) /\ k < 3 THEN UnitIndex(bytes, k + 1) ELSE k

formatSize(bytes) ==
  LET units  == <<"B", "KB", "MB", "GB">>
      k      == UnitIndex(bytes, 0)
      tenths == (bytes * 20 + Pow1024(k)) \div (2 * Pow1024(k))   \* size rounded to 0.1
  IN IF k = 0 THEN ToString(bytes) \o " " \o units[1]
     ELSE ToString(tenths \div 10) \o "." \o ToString(tenths % 10) \o " " \o units[k + 1]

\* String.prototype.localeCompare on the characters file names are made of here:
\* punctuation, then digits, then letters
Collation == "_-.0123456789abcdefghijklmnopqrstuvwxyz"
CharRank(c) == IndexOfFrom(Collation, c, 1)

RECURSIVE NameBefore(_, _)
NameBefore(a, b) ==
  IF Len(b) = 0 THEN FALSE
  ELSE IF Len(a) = 0 THEN TRUE
  ELSE IF CharAt(a, 1) # CharAt(b, 1) THEN CharRank(CharAt(a, 1)) < CharRank(CharAt(b, 1))
  ELSE NameBefore(Tail(a), Tail(b))

\* list_files' comparator: directories first, then by name
ItemBefore(a, b) ==
  IF a.type # b.type THEN a.type = "directory" ELSE NameBefore(a.name, b.name)

\* search_code's comparator, b.matchCount - a.matchCount: more matches first
CountBefore(a, b) == b.matchCount - a.matchCount < 0

\* buildTree's comparator: directories first, then by name
EntryBefore(a, b) ==
  IF a.isDir # b.isDir THEN a.isDir ELSE NameBefore(a.name, b.name)

\* the comparators handed to Array.prototype.sort
Before(cmp, a, b) ==
  IF cmp = "items" THEN ItemBefore(a, b)
  ELSE IF cmp = "entries" THEN EntryBefore(a, b)
  ELSE CountBefore(a, b)

\* Array.prototype.sort (stable): an element goes after the elements that must
\* come before it and after the earlier elements it need not come before
StableSort(s, cmp) ==
  LET n == Len(s)
      Precedes(j, i) ==
        \/ Before(cmp, s[j], s[i])
        \/ j < i /\ ~Before(cmp, s[i], s[j])
      place == [i \in 1..n |-> 1 + Cardinality({j \in (1..n) \ {i} : Precedes(j, i)})]
  IN [k \in 1..n |-> s[CHOOSE i \in 1..n : place[i] = k]]

(***************************************************************************)
(* Laravel server: the single-request handlers.  Each is the whole branch  *)
(* of the CallToolRequestSchema handler, including the catch that turns a  *)
(* thrown error into the failure payload.  An optional number is <<>>      *)
(* (undefined) or <<n>>.                                                   *)
(***************************************************************************)

Max(a, b) == IF a >= b THEN a ELSE b
Min(a, b) == IF a <= b THEN a ELSE b

\* Array.prototype.slice(a, b)
Slice(s, a, b) ==
  LET n     == Len(s)
      start == IF a < 0 THEN Max(n + a, 0) ELSE Min(a, n)
      end   == IF b < 0 THEN Max(n + b, 0) ELSE Min(b, n)
  IN IF start < end THEN SubSeq(s, start + 1, end) ELSE <<>>

\* String.prototype.padStart(width, " ")
RECURSIVE PadStart(_, _)
PadStart(s, width) == IF Len(s) >= width THEN s ELSE PadStart(" " \o s, width)

\* String.prototype.trim
WhiteSpace == {" ", "\t", "\n", "\r"}
RECURSIVE TrimStart(_)
TrimStart(s) ==
  IF Len(s) > 0 /\ CharAt(s, 1) \in WhiteSpace THEN TrimStart(SubSeq(s, 2, Len(s))) ELSE s
RECURSIVE TrimEnd(_)
TrimEnd(s) ==
  IF Len(s) > 0 /\ CharAt(s, Len(s)) \in WhiteSpace
  THEN TrimEnd(SubSeq(s, 1, Len(s) - 1)) ELSE s
Trim(s) == TrimEnd(TrimStart(s))

\* the rule under read_file's header: a box-drawing dash repeated 60 times,
\* written here with the ASCII dash
Rule60 == "------------------------------------------------------------"

\* content.split("\n").length
LineCount(content) == Len(Split(content, "\n"))

\* read_file
read_file(f, a) ==
  LET r  == resolvePath(a.path)
      e1 == ResolveEv(a.path, r)
  IN IF ~r.ok THEN Out(f, <<e1>>, Failure(r.val))
     ELSE
       LET c  == fsReadFile(f, r.val)
           e2 == Ev("readFile", a.path, r.val)
       IN IF ~c.ok THEN Out(f, <<e1, e2>>, Failure(c.val))
          ELSE
            LET lines     == Split(c.val, "\n")
                n         == Len(lines)
                ranged    == Len(a.start_line) > 0
                startLine == IF ranged THEN Max(1, a.start_line[1]) ELSE 1
                endLine   ==
                  IF ~ranged THEN n
                  ELSE IF Len(a.end_line) > 0 /\ a.end_line[1] = -1 THEN n
                  ELSE Min(n, IF Len(a.end_line) = 0 \/ a.end_line[1] = 0
                              THEN n ELSE a.end_line[1])
                selectedLines == IF ranged THEN Slice(lines, startLine - 1, endLine) ELSE lines
                numberedLines ==
                  [i \in 1..Len(selectedLines) |->
                     PadStart(ToString(startLine + i - 1), 4) \o " | " \o selectedLines[i]]
                header == "File: " \o a.path \o " (lines " \o ToString(startLine) \o "-"
                          \o ToString(endLine) \o " of " \o ToString(n) \o ")\n" \o Rule60
            IN Out(f, <<e1, e2>>, Success(header \o "\n" \o Join(numberedLines, "\n")))

\* read_multiple_files: one callback per path; results is keyed by the path
RECURSIVE readEach(_, _)
readEach(f, paths) ==
  IF Len(paths) = 0 THEN [log |-> <<>>, results |-> <<>>]
  ELSE
    LET filePath == Head(paths)
        r    == resolvePath(filePath)
        e1   == ResolveEv(filePath, r)
        c    == fsReadFile(f, r.val)
        e2   == Ev("readFile", filePath, r.val)
        one  == IF ~r.ok THEN [path |-> filePath, success |-> FALSE, text |-> r.val]
                ELSE [path |-> filePath, success |-> c.ok, text |-> c.val]
        rest == readEach(f, Tail(paths))
    IN [log     |-> (IF r.ok THEN <<e1, e2>> ELSE <<e1>>) \o rest.log,
        results |-> <<one>> \o rest.results]

read_multiple_files(f, a) ==
  LET r == readEach(f, a.paths)
      keys == {r.results[i].path : i \in 1..Len(r.results)}
      byPath == [p \in keys |->
                   LET i == CHOOSE i \in 1..Len(r.results) : r.results[i].path = p
                   IN [success |-> r.results[i].success, text |-> r.results[i].text]]
  IN Out(f, r.log, Success(byPath))

\* write_file
write_file(f, a) ==
  LET r  == resolvePath(a.path)
      e1 == ResolveEv(a.path, r)
  IN IF ~r.ok THEN Out(f, <<e1>>, Failure(r.val))
     ELSE
       LET acc == fsAccess(f, r.val)
           e2  == Ev("access", a.path, r.val)
       IN IF ~acc.ok THEN Out(f, <<e1, e2>>, Failure(acc.val))
          ELSE
            LET w  == fsWriteFile(f, r.val, a.content)
                e3 == Ev("writeFile", a.path, r.val)
            IN IF ~w.ok THEN Out(f, <<e1, e2, e3>>, Failure(w.val))
               ELSE Out(w.val, <<e1, e2, e3>>,
                        Success("Successfully wrote " \o ToString(LineCount(a.content))
                                \o " lines to " \o a.path))

\* the mutation of create_file that does not look whether the file exists
create_file_unchecked(f, a) ==
  LET r  == resolvePath(a.path)
      e1 == ResolveEv(a.path, r)
  IN IF ~r.ok THEN Out(f, <<e1>>, Failure(r.val))
     ELSE
       LET m  == fsMkdirP(f, pathDirname(r.val))
           e3 == Ev("mkdir", a.path, pathDirname(r.val))
       IN IF ~m.ok THEN Out(f, <<e1, e3>>, Failure(m.val))
          ELSE
            LET w  == fsWriteFile(m.val, r.val, a.content)
                e4 == Ev("writeFile", a.path, r.val)
            IN IF ~w.ok THEN Out(m.val, <<e1, e3, e4>>, Failure(w.val))
               ELSE Out(w.val, <<e1, e3, e4>>,
                        Success("Successfully created " \o a.path \o " with "
                                \o ToString(LineCount(a.content)) \o " lines"))

\* create_file
create_file(f, a) ==
  LET r  == resolvePath(a.path)
      e1 == ResolveEv(a.path, r)
  IN IF ~r.ok THEN Out(f, <<e1>>, Failure(r.val))
     ELSE
       LET acc == fsAccess(f, r.val)
           e2  == Ev("access", a.path, r.val)
       IN IF acc.ok
          THEN Out(f, <<e1, e2>>,
                   Failure("File already exists: " \o a.path
                           \o ". Use write_file to overwrite."))
          ELSE IF acc.val # "ENOENT" THEN Out(f, <<e1, e2>>, Failure(acc.val))
          ELSE
            LET m  == fsMkdirP(f, pathDirname(r.val))
                e3 == Ev("mkdir", a.path, pathDirname(r.val))
            IN IF ~m.ok THEN Out(f, <<e1, e2, e3>>, Failure(m.val))
               ELSE
                 LET w  == fsWriteFile(m.val, r.val, a.content)
                     e4 == Ev("writeFile", a.path, r.val)
                 IN IF ~w.ok THEN Out(m.val, <<e1, e2, e3, e4>>, Failure(w.val))
                    ELSE Out(w.val, <<e1, e2, e3, e4>>,
                             Success("Successfully created " \o a.path \o " with "
                                     \o ToString(LineCount(a.content)) \o " lines"))

\* the mutation of delete_file that joins the path to the root unchecked
delete_file_unchecked(f, a) ==
  LET filePath == pathJoin(PROJECT_ROOT, a.path)
      u  == fsUnlink(f, filePath)
      e2 == Ev("unlink", a.path, filePath)
  IN IF ~u.ok THEN Out(f, <<e2>>, Failure(u.val))
     ELSE Out(u.val, <<e2>>, Success("Successfully deleted " \o a.path))

\* delete_file
delete_file(f, a) ==
  LET r  == resolvePath(a.path)
      e1 == ResolveEv(a.path, r)
  IN IF ~r.ok THEN Out(f, <<e1>>, Failure(r.val))
     ELSE
       LET u  == fsUnlink(f, r.val)
           e2 == Ev("unlink", a.path, r.val)
       IN IF ~u.ok THEN Out(f, <<e1, e2>>, Failure(u.val))
          ELSE Out(u.val, <<e1, e2>>, Success("Successfully deleted " \o a.path))

JsNull == "<null>"

\* list_files, one level: the entries kept by the three filters, in readdir order
RECURSIVE keptEntries(_, _)
keptEntries(entries, pattern) ==
  IF Len(entries) = 0 THEN <<>>
  ELSE LET e == Head(entries)
           keep == /\ ~StartsWith(e.name, ".")
                   /\ ~IsExcludedName(e.name)
                   /\ (pattern = "" \/ EndsWith(e.name, pattern))
       IN (IF keep THEN <<e>> ELSE <<>>) \o keptEntries(Tail(entries), pattern)

\* list_files
list_files(f, a) ==
  LET directory == IF a.directory = "" THEN "." ELSE a.directory
      r  == resolvePath(directory)
      e1 == ResolveEv(a.directory, r)
  IN IF ~r.ok THEN Out(f, <<e1>>, Failure(r.val))
     ELSE IF a.recursive /\ a.pattern # "" THEN
       LET w == getFilesRecursively(f, r.val, <<a.pattern>>, a.directory)
       IN Out(f, <<e1>> \o w.log,
              Success([directory |-> directory, pattern |-> a.pattern,
                       files |-> w.files, count |-> Len(w.files)]))
     ELSE
       LET rd == fsReaddir(f, r.val)
           e2 == Ev("readdir", a.directory, r.val)
       IN IF ~rd.ok THEN Out(f, <<e1, e2>>, Failure(rd.val))
          ELSE
            LET kept  == keptEntries(rd.val, a.pattern)
                stats == [i \in 1..Len(kept) |-> fsStat(f, pathJoin(r.val, kept[i].name))]
                evs   == [i \in 1..Len(kept) |->
                            Ev("stat", a.directory, pathJoin(r.val, kept[i].name))]
                items == [i \in 1..Len(kept) |->
                            [name |-> kept[i].name,
                             type |-> IF kept[i].isDir THEN "directory" ELSE "file",
                             size |-> IF kept[i].isDir THEN JsNull
                                      ELSE formatSize(stats[i].val)]]
                bad   == {i \in 1..Len(kept) : ~stats[i].ok}
            IN IF bad # {}       \* Promise.all rejects
               THEN Out(f, <<e1, e2>> \o evs,
                        Failure(stats[CHOOSE i \in bad : \A j \in bad : i <= j].val))
               ELSE LET sorted == StableSort(items, "items")
                    IN Out(f, <<e1, e2>> \o evs,
                           Success([directory |-> directory, items |-> sorted,
                                    count |-> Len(sorted)]))

\* GetSubstitution of String.prototype.replaceAll for a string pattern: in the
\* replacement "$$" stands for "$", "$&" for the matched text and "$'" for the
\* text after the match; there are no captures, so any other "$" stands for
\* itself ("$" before a grave accent, the text before the match, is outside the
\* characters of this model).  position is 1-based.
RECURSIVE GetSubstitution(_, _, _, _)
GetSubstitution(matched, str, position, replacement) ==
  IF Len(replacement) = 0 THEN ""
  ELSE
    LET c    == CharAt(replacement, 1)
        d    == IF Len(replacement) >= 2 THEN CharAt(replacement, 2) ELSE ""
        Rest(k) == GetSubstitution(matched, str, position,
                                   SubSeq(replacement, k, Len(replacement)))
    IN IF c = "$" /\ d = "$" THEN "$" \o Rest(3)
       ELSE IF c = "$" /\ d = "&" THEN matched \o Rest(3)
       ELSE IF c = "$" /\ d = "'"
         THEN SubSeq(str, position + Len(matched), Len(str)) \o Rest(3)
       ELSE c \o Rest(2)

\* String.prototype.replaceAll(search, replace) with a string pattern:
\* occurrences are found left to right from `from` on and do not overlap; the
\* empty pattern matches before every character and at the end
RECURSIVE replaceAllFrom(_, _, _, _)
replaceAllFrom(s, search, replace, from) ==
  IF Len(search) = 0 THEN
    GetSubstitution("", s, from, replace)
    \o (IF from > Len(s) THEN ""
        ELSE CharAt(s, from) \o replaceAllFrom(s, search, replace, from + 1))
  ELSE
    LET i == IndexOfFrom(s, search, from)
    IN IF i = 0 THEN SubSeq(s, from, Len(s))
       ELSE SubSeq(s, from, i - 1) \o GetSubstitution(search, s, i, replace)
            \o replaceAllFrom(s, search, replace, i + Len(search))

replaceAll(s, search, replace) == replaceAllFrom(s, search, replace, 1)

\* the mutation of the lines.map callback that rewrites and records every line
replaceLines_all(lines, index, search, replace) ==
  [newLines |-> [i \in 1..Len(lines) |-> replaceAll(lines[i], search, replace)],
   changes  |-> [i \in 1..Len(lines) |->
                   [line |-> i, before |-> Trim(lines[i]),
                    after |-> Trim(replaceAll(lines[i], search, replace))]]]

\* the lines.map callback of search_and_replace: the new lines and the changes
RECURSIVE replaceLines(_, _, _, _)
replaceLines(lines, index, search, replace) ==
  IF index > Len(lines) THEN [newLines |-> <<>>, changes |-> <<>>]
  ELSE
    LET line == lines[index]
        rest == replaceLines(lines, index + 1, search, replace)
    IN IF Includes(line, search) THEN
         LET newLine == replaceAll(line, search, replace)
         IN [newLines |-> <<newLine>> \o rest.newLines,
             changes  |-> <<[line |-> index, before |-> Trim(line), after |-> Trim(newLine)]>>
                          \o rest.changes]
       ELSE [newLines |-> <<line>> \o rest.newLines, changes |-> rest.changes]

\* search_and_replace
search_and_replace(f, a) ==
  LET r  == resolvePath(a.path)
      e1 == ResolveEv(a.path, r)
  IN IF ~r.ok THEN Out(f, <<e1>>, Failure(r.val))
     ELSE
       LET c  == fsReadFile(f, r.val)
           e2 == Ev("readFile", a.path, r.val)
       IN IF ~c.ok THEN Out(f, <<e1, e2>>, Failure(c.val))
          ELSE
            LET lines == Split(c.val, "\n")
                m     == replaceLines(lines, 1, a.search, a.replace)
            IN IF Len(m.changes) = 0
               THEN Out(f, <<e1, e2>>,
                        Success([file |-> a.path, message |-> "No matches found",
                                 changes |-> <<>>]))
               ELSE
                 LET w  == fsWriteFile(f, r.val, Join(m.newLines, "\n"))
                     e3 == Ev("writeFile", a.path, r.val)
                 IN IF ~w.ok THEN Out(f, <<e1, e2, e3>>, Failure(w.val))
                    ELSE Out(w.val, <<e1, e2, e3>>,
                             Success([file |-> a.path,
                                      message |-> "Replaced " \o ToString(Len(m.changes))
                                                  \o " occurrence(s)",
                                      changes |-> m.changes]))

(***************************************************************************)
(* analyze_php_file: the line rules, each regular expression matched the   *)
(* way the backtracking matcher matches it.  A match is <<>> (null) or the *)
(* one-element sequence of what the rule reads from its captures.          *)
(***************************************************************************)

WordChars == Upper \o Lower \o "0123456789_"
IsWord(c) == Len(c) = 1 /\ IndexOfFrom(WordChars, c, 1) # 0
IsSpace(c) == c \in WhiteSpace

\* the first index from i on that holds no white space (\s* from i)
RECURSIVE SpaceEnd(_, _)
SpaceEnd(s, i) == IF i <= Len(s) /\ IsSpace(CharAt(s, i)) THEN SpaceEnd(s, i + 1) ELSE i

\* the first index from i on that holds no word character (\w* from i)
RECURSIVE WordEnd(_, _)
WordEnd(s, i) == IF i <= Len(s) /\ IsWord(CharAt(s, i)) THEN WordEnd(s, i + 1) ELSE i

\* the first index from i on that holds the character stop ([^stop]* from i)
RECURSIVE OtherEnd(_, _, _)
OtherEnd(s, i, stop) ==
  IF i <= Len(s) /\ CharAt(s, i) # stop THEN OtherEnd(s, i + 1, stop) ELSE i

LitAt(s, i, lit) == i + Len(lit) - 1 <= Len(s) /\ SubSeq(s, i, i + Len(lit) - 1) = lit

\* \s+([^stop]+) from i: the white space is taken greedily and the capture runs
\* to the next stop character; when nothing is left for the capture, the last
\* white-space character is given back to it
SpacesThenOthers(s, i, stop) ==
  LET k == SpaceEnd(s, i)
  IN IF k = i THEN <<>>
     ELSE IF k <= Len(s) /\ CharAt(s, k) # stop
       THEN <<SubSeq(s, k, OtherEnd(s, k, stop) - 1)>>
     ELSE IF k - 1 > i /\ CharAt(s, k - 1) # stop THEN <<SubSeq(s, k - 1, k - 1)>>
     ELSE <<>>

\* line.match(/^\s*keyword\s+([^;]+)/), capture 1
KeywordMatch(line, keyword) ==
  LET i == SpaceEnd(line, 1)
  IN IF LitAt(line, i, keyword) THEN SpacesThenOthers(line, i + Len(keyword), ";")
     ELSE <<>>

nsMatch(line) == KeywordMatch(line, "namespace")
useMatch(line) == KeywordMatch(line, "use")

\* an optional group (word\s+)? at i: the index after it
OptionalWord(s, i, word) ==
  IF LitAt(s, i, word) /\ SpaceEnd(s, i + Len(word)) > i + Len(word)
  THEN SpaceEnd(s, i + Len(word)) ELSE i

ClassKinds == <<"class", "interface", "trait", "enum">>

\* line.match(/^\s*(abstract\s+)?(final\s+)?(class|interface|trait|enum)\s+(\w+)/),
\* captures 3 and 4
classMatch(line) ==
  LET i   == OptionalWord(line, OptionalWord(line, SpaceEnd(line, 1), "abstract"), "final")
      ks  == {n \in 1..Len(ClassKinds) : LitAt(line, i, ClassKinds[n])}
      n   == CHOOSE n \in ks : \A m \in ks : n <= m
      k   == SpaceEnd(line, i + Len(ClassKinds[n]))
  IN IF ks = {} THEN <<>>
     ELSE IF k > i + Len(ClassKinds[n]) /\ WordEnd(line, k) > k
       THEN <<[type |-> ClassKinds[n], name |-> SubSeq(line, k, WordEnd(line, k) - 1)]>>
     ELSE <<>>

\* line.match(/extends\s+(\w+)/), capture 1: the leftmost match from p on
RECURSIVE extendsFrom(_, _)
extendsFrom(line, p) ==
  IF p > Len(line) THEN <<>>
  ELSE LET k == SpaceEnd(line, p + 7)
       IN IF LitAt(line, p, "extends") /\ k > p + 7 /\ WordEnd(line, k) > k
          THEN <<SubSeq(line, k, WordEnd(line, k) - 1)>>
          ELSE extendsFrom(line, p + 1)

extendsMatch(line) == extendsFrom(line, 1)

\* line.match(/implements\s+([^{]+)/), capture 1: the leftmost match from p on
RECURSIVE implFrom(_, _)
implFrom(line, p) ==
  IF p > Len(line) THEN <<>>
  ELSE LET m == IF LitAt(line, p, "implements")
                THEN SpacesThenOthers(line, p + 10, "{") ELSE <<>>
       IN IF m # <<>> THEN m ELSE implFrom(line, p + 1)

implMatch(line) == implFrom(line, 1)

\* the mutation of the implements list that keeps the empty entries
TrimmedAll(parts) == [i \in 1..Len(parts) |-> Trim(parts[i])]

\* implMatch[1].split(",").map((i) => i.trim()).filter(Boolean)
RECURSIVE TrimmedNonEmpty(_)
TrimmedNonEmpty(parts) ==
  IF Len(parts) = 0 THEN <<>>
  ELSE (IF Trim(Head(parts)) = "" THEN <<>> ELSE <<Trim(Head(parts))>>)
       \o TrimmedNonEmpty(Tail(parts))

\* the analysis before the first line; the constants, properties and methods
\* lists are filled by rules that read and write nothing else and are not
\* carried here
NewAnalysis(file) ==
  [file |-> file, namespace |-> JsNull, className |-> JsNull, classType |-> JsNull,
   extends |-> JsNull, implements |-> <<>>, traits |-> <<>>, imports |-> <<>>,
   insideClass |-> FALSE]

\* the namespace rule applied to one line
namespaceRule(an, line) ==
  LET m == nsMatch(line)
  IN IF m # <<>> THEN [an EXCEPT !.namespace = Trim(m[1])] ELSE an

\* the use rule applied to one line
useRule(an, line, lineNum) ==
  LET m == useMatch(line)
  IN IF m # <<>> /\ ~an.insideClass
       THEN [an EXCEPT !.imports = Append(@, [statement |-> Trim(m[1]), line |-> lineNum])]
     ELSE IF m # <<>> /\ an.insideClass /\ ~Includes(m[1], "\\")
       THEN [an EXCEPT !.traits = Append(@, Trim(m[1]))]
     ELSE an

\* what a matching header line sets
setClass(an, line, m) ==
  LET e  == extendsMatch(line)
      im == implMatch(line)
  IN [an EXCEPT !.classType = m[1].type,
                !.className = m[1].name,
                !.insideClass = TRUE,
                !.extends = IF e # <<>> THEN e[1] ELSE @,
                !.implements = IF im # <<>> THEN TrimmedNonEmpty(Split(im[1], ","))
                               ELSE @]

\* the mutation of the class-header rule that lets every header line set the class
classRule_everyHeader(an, line) ==
  LET m == classMatch(line) IN IF m # <<>> THEN setClass(an, line, m) ELSE an

\* the class-header rule applied to one line
classRule(an, line) ==
  LET m == classMatch(line)
  IN IF m # <<>> /\ an.className = JsNull THEN setClass(an, line, m) ELSE an

\* the for loop over the lines
RECURSIVE analyzeLines(_, _, _)
analyzeLines(an, lines, i) ==
  IF i > Len(lines) THEN an
  ELSE analyzeLines(classRule(useRule(namespaceRule(an, lines[i]), lines[i], i), lines[i]),
                    lines, i + 1)

\* the report: the analysis without the loop's flag, with fullClassName when a
\* namespace and a class name are set (and not empty)
analysisReport(an) ==
  LET base == [file |-> an.file, namespace |-> an.namespace, className |-> an.className,
               classType |-> an.classType, extends |-> an.extends,
               implements |-> an.implements, traits |-> an.traits, imports |-> an.imports]
      Truthy(v) == v # JsNull /\ v # ""
  IN IF Truthy(an.namespace) /\ Truthy(an.className)
     THEN base @@ [fullClassName |-> an.namespace \o "\\" \o an.className]
     ELSE base

\* analyze_php_file
analyze_php_file(f, a) ==
  LET r  == resolvePath(a.path)
      e1 == ResolveEv(a.path, r)
  IN IF ~r.ok THEN Out(f, <<e1>>, Failure(r.val))
     ELSE
       LET c  == fsReadFile(f, r.val)
           e2 == Ev("readFile", a.path, r.val)
       IN IF ~c.ok THEN Out(f, <<e1, e2>>, Failure(c.val))
          ELSE Out(f, <<e1, e2>>,
                   Success(analysisReport(
                     analyzeLines(NewAnalysis(a.path), Split(c.val, "\n"), 1))))

(***************************************************************************)
(* The modelled deployment: a project tree under PROJECT_ROOT with hidden, *)
(* excluded and ordinary directories, a sibling directory whose name       *)
(* extends the root's name, and files outside the root.                    *)
(***************************************************************************)

Home == "/Users/radiustheme13/project"
\* PROJECT_ROOT of radius-directory/mcp-server.js and of elite-quize/mcp-server.js
RADIUS_ROOT == "/Users/radiustheme13/project/radius-directory"
ELITE_ROOT  == "/Users/radiustheme13/project/eliite-quize-admin"
SiblingRoot == PROJECT_ROOT \o "-old"
In(rel) == PROJECT_ROOT \o "/" \o rel

Outside ==
     ("/"                          :> Dir(<<"Users", "etc", "srv">>))
  @@ ("/srv"                       :> Dir(<<"app", "app-old">>))
  @@ ("/etc"                       :> Dir(<<"passwd">>))
  @@ ("/etc/passwd"                :> File("root:x"))
  @@ ("/Users"                     :> Dir(<<"radiustheme13">>))
  @@ ("/Users/radiustheme13"       :> Dir(<<"project">>))
  @@ (Home                         :> Dir(<<"radius-directory", "eliite-quize-admin">>))
  @@ (RADIUS_ROOT                  :> Dir(<<"app", "Button.tsx", "Button.css">>))
  @@ (RADIUS_ROOT \o "/app"        :> Dir(<<"page.tsx">>))
  @@ (RADIUS_ROOT \o "/app/page.tsx" :> File("import a from 'b'"))
  @@ (RADIUS_ROOT \o "/Button.tsx" :> File("export {}"))
  @@ (RADIUS_ROOT \o "/Button.css" :> File("a {}"))
  @@ (ELITE_ROOT                   :> Dir(<<"index.php">>))
  @@ (ELITE_ROOT \o "/index.php"   :> File("<?php"))
  @@ (SiblingRoot                  :> Dir(<<"s.php">>))
  @@ (SiblingRoot \o "/s.php"      :> File("secret foo"))

Project ==
     (PROJECT_ROOT                   :> Dir(<<"b.txt", "app", ".github", "vendor",
                                              "storage", "myvendor", "a.php", ".env",
                                              "gone.php">>))
  @@ (In("b.txt")                    :> File("foo"))
  @@ (In("a.php")                    :> File("x foo\ny\n foo foo "))
  @@ (In(".env")                     :> File("KEY=1"))
  @@ (In("gone.php")                 :> BrokenLink)
  @@ (In("app")                      :> Dir(<<"c.php", "node_modules", ".h.php", "sub">>))
  @@ (In("app/c.php")                :> File("bar\nfoo"))
  @@ (In("app/.h.php")               :> File("h"))
  @@ (In("app/node_modules")         :> Dir(<<"e.php">>))
  @@ (In("app/node_modules/e.php")   :> File("e"))
  @@ (In("app/sub")                  :> Dir(<<"d.blade.php">>))
  @@ (In("app/sub/d.blade.php")      :> File("d"))
  @@ (In(".github")                  :> Dir(<<"w.php", "inner">>))
  @@ (In(".github/w.php")            :> File("w"))
  @@ (In(".github/inner")            :> Dir(<<"x.php">>))
  @@ (In(".github/inner/x.php")      :> File("x"))
  @@ (In("vendor")                   :> Dir(<<"v.php">>))
  @@ (In("vendor/v.php")             :> File("v"))
  @@ (In("storage")                  :> Dir(<<"framework", "app">>))
  @@ (In("storage/framework")        :> Dir(<<"f.php">>))
  @@ (In("storage/framework/f.php")  :> File("f"))
  @@ (In("storage/app")              :> Locked(Dir(<<"g.php">>)))
  @@ (In("storage/app/g.php")        :> File("g"))
  @@ (In("myvendor")                 :> Dir(<<"m.php">>))
  @@ (In("myvendor/m.php")           :> File("m"))

World == Outside @@ Project

\* the caller's inputs
MaxOps == 2

PathArgs == {"a.php", "app/c.php", "app", "nope.php", "new/n.php",
             "../app-old/s.php", "../../etc/passwd", "/etc/passwd"}
MutPathArgs == {"a.php", "new/n.php", "../app-old/s.php", "/etc/passwd"}
DirArgs == {"", "app", "vendor", ".github", "storage", "storage/framework",
            "../app-old", "..", "a.php", "nodir"}
PatternArgs == {"", ".php"}
RangeArgs == {<<<<>>, <<>>>>, <<<<2>>, <<-1>>>>, <<<<0>>, <<2>>>>, <<<<2>>, <<>>>>}
PathListArgs == {<<"a.php">>, <<"a.php", "../../etc/passwd">>, <<"nope.php", "app/c.php">>,
                 <<"../app-old/s.php", "a.php">>, <<>>}

Idle == [name |-> "", args |-> <<>>]

\* one request served from the idle server: the handler's outcome becomes the state
Serve(name, a, out) ==
  /\ pc = "idle"
  /\ nops < MaxOps
  /\ req' = [name |-> name, args |-> a]
  /\ fs' = out.fs
  /\ log' = out.log
  /\ reply' = out.reply
  /\ nops' = nops + 1
  /\ UNCHANGED scanVars

Call_read_file ==
  \E p \in PathArgs, rng \in RangeArgs :
    LET a == [path |-> p, start_line |-> rng[1], end_line |-> rng[2]]
    IN Serve("read_file", a, read_file(fs, a))

Call_read_multiple_files ==
  \E ps \in PathListArgs :
    LET a == [paths |-> ps] IN Serve("read_multiple_files", a, read_multiple_files(fs, a))

Call_write_file ==
  \E p \in MutPathArgs :
    LET a == [path |-> p, content |-> "<?php\n"] IN Serve("write_file", a, write_file(fs, a))

Call_create_file ==
  \E p \in MutPathArgs :
    LET a == [path |-> p, content |-> "<?php\n"] IN Serve("create_file", a, create_file(fs, a))

Call_delete_file ==
  \E p \in MutPathArgs \cup {"app"} :
    LET a == [path |-> p] IN Serve("delete_file", a, delete_file(fs, a))

Call_list_files ==
  \E d \in DirArgs, rec \in BOOLEAN, pat \in PatternArgs :
    LET a == [directory |-> d, recursive |-> rec, pattern |-> pat]
    IN Serve("list_files", a, list_files(fs, a))

Call_search_and_replace ==
  \E p \in MutPathArgs \cup {"app/c.php"}, s \in {"foo", "zz"} :
    LET a == [path |-> p, search |-> s, replace |-> "bar"]
    IN Serve("search_and_replace", a, search_and_replace(fs, a))

Call_analyze_php_file ==
  \E p \in PathArgs :
    LET a == [path |-> p] IN Serve("analyze_php_file", a, analyze_php_file(fs, a))

NoScan ==
  /\ pc = "idle"
  /\ files = <<>>
  /\ pending = {}
  /\ results = <<>>
  /\ totalMatches = 0
  /\ regex = [atoms |-> <<>>, flags |-> "", lastIndex |-> 0, tested |-> {}]
  /\ order = "any"

Init ==
  /\ fs = World
  /\ req = Idle
  /\ log = <<>>
  /\ reply = Success("")
  /\ nops = 0
  /\ NoScan

Next ==
  \/ Call_read_file
  \/ Call_read_multiple_files
  \/ Call_write_file
  \/ Call_create_file
  \/ Call_delete_file
  \/ Call_list_files
  \/ Call_search_and_replace
  \/ Call_analyze_php_file

Spec == Init /\ [][Next]_vars

(***************************************************************************)
(* The path sandbox on its own: resolvePath applied to relative paths of   *)
(* up to MaxSegs segments                                                  *)
(***************************************************************************)

MaxSegs == 3

SandboxSegs == {"..", ".", "app", "a.php", "srv", "app-old"}

RECURSIVE RelPaths(_)
RelPaths(n) ==
  IF n = 1 THEN SandboxSegs
  ELSE LET shorter == RelPaths(n - 1)
       IN shorter \cup {p \o "/" \o s : p \in shorter, s \in SandboxSegs}

Call_resolvePath ==
  \E p \in RelPaths(MaxSegs) :
    LET r == resolvePath(p)
    IN /\ pc = "idle"
       /\ req' = [name |-> "resolvePath", args |-> [path |-> p]]
       /\ log' = <<ResolveEv(p, r)>>
       /\ reply' = IF r.ok THEN Success(r.val) ELSE Failure(r.val)
       /\ UNCHANGED <<fs, nops>>
       /\ UNCHANGED scanVars

NextSandbox == Call_resolvePath

SpecSandbox == Init /\ [][NextSandbox]_vars

(***************************************************************************)
(* Properties                                                              *)
(***************************************************************************)

\* C1: resolvePath(p) returns a path inside the project root or fails with the
\* access-denied error; it never returns a path outside the root (such as the
\* sibling directory whose name extends the root's name).
C1_NeverOutsideRoot ==
  req.name = "resolvePath" =>
    \/ reply.isError /\ reply.body = "Error: " \o AccessDenied
    \/ ~reply.isError /\ InsideRoot(reply.body)

\* the Laravel tools that take a caller-supplied path
PathTools == {"read_file", "read_multiple_files", "write_file", "create_file",
              "delete_file", "list_files", "search_and_replace", "analyze_php_file"}

\* C2: in the Laravel server every filesystem call made for a caller-supplied
\* path comes after a successful resolvePath of that path, the first call of a
\* path-taking operation is resolvePath, and a path resolvePath rejected gets no
\* filesystem call in that operation.
C2_ResolveBeforeFs ==
  req.name \in PathTools =>
    /\ Len(log) > 0 => log[1].op = "resolvePath"
    /\ \A i \in 1..Len(log) :
         log[i].op \in FsOps =>
           \E j \in 1..(i - 1) :
             log[j].op = "resolvePath" /\ log[j].arg = log[i].arg /\ log[j].ok
    /\ \A j \in 1..Len(log) :
         (log[j].op = "resolvePath" /\ ~log[j].ok) =>
           \A i \in 1..Len(log) : log[i].op \in FsOps => log[i].arg # log[j].arg

\* a request in which one path was rejected without any filesystem call while
\* another path of the same request was read
C2_Witness ==
  /\ req.name = "read_multiple_files"
  /\ \E j \in 1..Len(log) : log[j].op = "resolvePath" /\ ~log[j].ok
  /\ \E i \in 1..Len(log) : log[i].op = "readFile"

\* a recursive list_files request that succeeded
IsRecursiveListing ==
  /\ req.name = "list_files"
  /\ req.args.recursive
  /\ req.args.pattern # ""
  /\ ~reply.isError

\* no EXCLUDE_DIRS fragment occurs in the path
NoFragment(path) == \A i \in 1..Len(EXCLUDE_DIRS) : ~Includes(path, EXCLUDE_DIRS[i])

\* no component of the path is hidden
NoHiddenPart(path) ==
  LET segs == Split(path, "/") IN \A i \in 1..Len(segs) : ~StartsWith(segs[i], ".")

C5_ExcludedNeverRead ==
  IsRecursiveListing =>
    \A i \in 1..Len(log) :
      log[i].op = "readdir" =>
        /\ NoFragment(pathRelative(PROJECT_ROOT, log[i].path))
        /\ ~StartsWith(pathBasename(log[i].path), ".")

(***************************************************************************)
(* The radius-directory and elite-quize servers: the handlers that take a  *)
(* caller-supplied path.  Both join the path to their root with path.join  *)
(* and hand the result to fs.                                              *)
(***************************************************************************)

\* String.prototype.lastIndexOf for one character, 1-based; 0 when absent
RECURSIVE LastIndexOf(_, _, _)
LastIndexOf(s, c, i) ==
  IF i = 0 THEN 0 ELSE IF CharAt(s, i) = c THEN i ELSE LastIndexOf(s, c, i - 1)

\* path.extname: from the last "." of the base name, unless that is its first character
pathExtname(p) ==
  LET base == pathBasename(p)
      i    == LastIndexOf(base, ".", Len(base))
  IN IF i <= 1 THEN "" ELSE SubSeq(base, i, Len(base))

\* path.basename(p, ext)
pathBasenameExt(p, ext) ==
  LET base == pathBasename(p)
  IN IF ext # "" /\ base # ext /\ EndsWith(base, ext)
     THEN SubSeq(base, 1, Len(base) - Len(ext)) ELSE base

\* read_file of both servers
plain_read_file(root, f, a) ==
  LET filePath == pathJoin(root, a.path)
      c == fsReadFile(f, filePath)
      e == Ev("readFile", a.path, filePath)
  IN Out(f, <<e>>, IF c.ok THEN Success(c.val) ELSE Failure(c.val))

\* list_files of both servers
plain_list_files(root, f, a) ==
  LET dirPath == pathJoin(root, a.directory)
      rd == fsReaddir(f, dirPath)
      e  == Ev("readdir", a.directory, dirPath)
  IN Out(f, <<e>>,
         IF ~rd.ok THEN Failure(rd.val)
         ELSE Success([i \in 1..Len(rd.val) |->
                         [name |-> rd.val[i].name,
                          type |-> IF rd.val[i].isDir THEN "directory" ELSE "file"]]))

\* write_file of elite-quize: no parent directory is created
elite_write_file(f, a) ==
  LET filePath == pathJoin(ELITE_ROOT, a.path)
      w == fsWriteFile(f, filePath, a.content)
      e == Ev("writeFile", a.path, filePath)
  IN IF ~w.ok THEN Out(f, <<e>>, Failure(w.val))
     ELSE Out(w.val, <<e>>, Success("File written successfully: " \o a.path))

\* write_file of radius-directory: the parent directories are created first
radius_write_file(f, a) ==
  LET filePath == pathJoin(RADIUS_ROOT, a.path)
      m  == fsMkdirP(f, pathDirname(filePath))
      e1 == Ev("mkdir", a.path, pathDirname(filePath))
  IN IF ~m.ok THEN Out(f, <<e1>>, Failure(m.val))
     ELSE
       LET w  == fsWriteFile(m.val, filePath, a.content)
           e2 == Ev("writeFile", a.path, filePath)
       IN IF ~w.ok THEN Out(m.val, <<e1, e2>>, Failure(w.val))
          ELSE Out(w.val, <<e1, e2>>, Success("File written successfully: " \o a.path))

relatedPatterns ==
  <<".module.css", ".module.scss", ".css", ".test.tsx", ".test.ts",
    ".spec.tsx", ".spec.ts", ".types.ts", ".d.ts">>

\* readRelatedFiles: the files found and the reads made
RECURSIVE readRelated(_, _, _, _, _)
readRelated(f, basePath, dir, fileName, patterns) ==
  IF Len(patterns) = 0 THEN [found |-> <<>>, log |-> <<>>]
  ELSE
    LET testPath == pathJoin(dir, fileName \o Head(patterns))
        c    == fsReadFile(f, testPath)
        e    == Ev("readFile", basePath, testPath)
        rest == readRelated(f, basePath, dir, fileName, Tail(patterns))
    IN [found |-> (IF c.ok
                   THEN <<[file |-> pathRelative(RADIUS_ROOT, testPath), content |-> c.val]>>
                   ELSE <<>>) \o rest.found,
        log   |-> <<e>> \o rest.log]

readRelatedFiles(f, basePath, patterns) ==
  readRelated(f, basePath, pathDirname(pathJoin(RADIUS_ROOT, basePath)),
              pathBasenameExt(basePath, pathExtname(basePath)), patterns)

\* read_component_context
read_component_context(f, a) ==
  LET mainPath == pathJoin(RADIUS_ROOT, a.component_path)
      c  == fsReadFile(f, mainPath)
      e  == Ev("readFile", a.component_path, mainPath)
  IN IF ~c.ok THEN Out(f, <<e>>, Failure(c.val))
     ELSE LET rel == readRelatedFiles(f, a.component_path, relatedPatterns)
          IN Out(f, <<e>> \o rel.log,
                 Success([main    |-> [file |-> a.component_path, content |-> c.val],
                          related |-> rel.found]))

\* analyze_imports: the read; the payload carries the lines the imports are
\* extracted from
analyze_imports(f, a) ==
  LET fullPath == pathJoin(RADIUS_ROOT, a.file_path)
      c == fsReadFile(f, fullPath)
      e == Ev("readFile", a.file_path, fullPath)
  IN Out(f, <<e>>, IF c.ok THEN Success(Split(c.val, "\n")) ELSE Failure(c.val))

\* read_multiple_files of radius-directory: one read after the other
RECURSIVE radiusReadEach(_, _)
radiusReadEach(f, paths) ==
  IF Len(paths) = 0 THEN [log |-> <<>>, results |-> <<>>]
  ELSE
    LET filePath == Head(paths)
        full == pathJoin(RADIUS_ROOT, filePath)
        c    == fsReadFile(f, full)
        rest == radiusReadEach(f, Tail(paths))
    IN [log     |-> <<Ev("readFile", filePath, full)>> \o rest.log,
        results |-> <<[file |-> filePath, text |-> c.val, success |-> c.ok]>>
                    \o rest.results]

radius_read_multiple_files(f, a) ==
  LET r == radiusReadEach(f, a.paths) IN Out(f, r.log, Success(r.results))

OtherPathArgs == {"app/page.tsx", "Button.tsx", "index.php", "missing.ts", "new/x.ts",
                  "app", "../../../../etc/passwd", "../../../../srv/app/a.php"}
OtherPathListArgs == {<<"Button.tsx", "missing.ts">>, <<"../../../../srv/app/a.php">>, <<>>}

Call_radius_read_file ==
  \E p \in OtherPathArgs :
    LET a == [path |-> p]
    IN Serve("radius-directory/read_file", a, plain_read_file(RADIUS_ROOT, fs, a))

Call_radius_list_files ==
  \E d \in OtherPathArgs :
    LET a == [directory |-> d]
    IN Serve("radius-directory/list_files", a, plain_list_files(RADIUS_ROOT, fs, a))

Call_radius_write_file ==
  \E p \in OtherPathArgs :
    LET a == [path |-> p, content |-> "x"]
    IN Serve("radius-directory/write_file", a, radius_write_file(fs, a))

Call_read_component_context ==
  \E p \in OtherPathArgs :
    LET a == [component_path |-> p]
    IN Serve("radius-directory/read_component_context", a, read_component_context(fs, a))

Call_analyze_imports ==
  \E p \in OtherPathArgs :
    LET a == [file_path |-> p]
    IN Serve("radius-directory/analyze_imports", a, analyze_imports(fs, a))

Call_radius_read_multiple_files ==
  \E ps \in OtherPathListArgs :
    LET a == [paths |-> ps]
    IN Serve("radius-directory/read_multiple_files", a, radius_read_multiple_files(fs, a))

Call_elite_read_file ==
  \E p \in OtherPathArgs :
    LET a == [path |-> p]
    IN Serve("elite-quize/read_file", a, plain_read_file(ELITE_ROOT, fs, a))

Call_elite_list_files ==
  \E d \in OtherPathArgs :
    LET a == [directory |-> d]
    IN Serve("elite-quize/list_files", a, plain_list_files(ELITE_ROOT, fs, a))

Call_elite_write_file ==
  \E p \in OtherPathArgs :
    LET a == [path |-> p, content |-> "x"]
    IN Serve("elite-quize/write_file", a, elite_write_file(fs, a))

NextOthers ==
  \/ Call_radius_read_file
  \/ Call_radius_list_files
  \/ Call_radius_write_file
  \/ Call_read_component_context
  \/ Call_analyze_imports
  \/ Call_radius_read_multiple_files
  \/ Call_elite_read_file
  \/ Call_elite_list_files
  \/ Call_elite_write_file

SpecOthers == Init /\ [][NextOthers]_vars

RadiusTools == {"radius-directory/read_file", "radius-directory/list_files",
                "radius-directory/write_file", "radius-directory/read_component_context",
                "radius-directory/analyze_imports", "radius-directory/read_multiple_files"}
EliteTools == {"elite-quize/read_file", "elite-quize/list_files", "elite-quize/write_file"}

Below(root, abs) == abs = root \/ StartsWith(abs, root \o "/")

\* C3: in the radius-directory and elite-quize servers a path that resolves
\* outside PROJECT_ROOT is rejected before any filesystem call, so no
\* filesystem call is ever made on a path outside the server's root.
C3_OthersStayInside ==
  /\ req.name \in RadiusTools =>
       \A i \in 1..Len(log) : log[i].op \in FsOps => Below(RADIUS_ROOT, log[i].path)
  /\ req.name \in EliteTools =>
       \A i \in 1..Len(log) : log[i].op \in FsOps => Below(ELITE_ROOT, log[i].path)

(***************************************************************************)
(* Laravel server: search_code.  The RegExp object is modelled by what     *)
(* RegExp.prototype.test does with a pattern over literal characters, "."  *)
(* and "*": a leftmost, greedy, backtracking match that starts at          *)
(* lastIndex (the pattern has the g flag) and moves lastIndex to the end   *)
(* of the match, or back to 0 when there is none.                          *)
(***************************************************************************)

DEFAULT_EXTENSIONS == <<".php", ".blade.php", ".js", ".vue", ".json", ".env">>

\* the characters of the class in escapeRegex: . * + ? ^ $ { } ( ) | [ ] \
RegexSpecial == {".", "*", "+", "?", "^", "$", "{", "}", "(", ")", "|", "[", "]", "\\"}

\* the mutation of escapeRegex that escapes nothing
escapeRegex_none(str) == str

\* escapeRegex: str.replace(/[.*+?^${}()|[\]\\]/g, "\\$&")
RECURSIVE escapeRegex(_)
escapeRegex(str) ==
  IF Len(str) = 0 THEN ""
  ELSE LET c == CharAt(str, 1)
       IN (IF c \in RegexSpecial THEN "\\" \o c ELSE c) \o escapeRegex(Tail(str))

\* new RegExp(source): the atoms of the pattern, or a SyntaxError.  A backslash
\* makes the next character a literal, "." is any character, "*" repeats the
\* atom before it; the other special characters, unescaped, are outside what
\* this model compiles
RECURSIVE compileFrom(_, _, _)
compileFrom(source, i, atoms) ==
  IF i > Len(source) THEN Ok(atoms)
  ELSE
    LET c == CharAt(source, i)
    IN IF c = "\\" THEN
         IF i = Len(source) THEN Err("Invalid regular expression: \\ at end of pattern")
         ELSE compileFrom(source, i + 2,
                Append(atoms, [kind |-> "lit", ch |-> CharAt(source, i + 1), star |-> FALSE]))
       ELSE IF c = "." THEN
         compileFrom(source, i + 1, Append(atoms, [kind |-> "any", ch |-> "", star |-> FALSE]))
       ELSE IF c = "*" THEN
         IF Len(atoms) = 0 \/ atoms[Len(atoms)].star
         THEN Err("Invalid regular expression: Nothing to repeat")
         ELSE compileFrom(source, i + 1, [atoms EXCEPT ![Len(atoms)].star = TRUE])
       ELSE IF c \in RegexSpecial THEN Err("Invalid regular expression")
       ELSE compileFrom(source, i + 1,
              Append(atoms, [kind |-> "lit", ch |-> c, star |-> FALSE]))

compile(source) == compileFrom(source, 1, <<>>)

LineTerminators == {"\n", "\r"}

AtomAccepts(atom, c, ignoreCase) ==
  IF atom.kind = "any" THEN c \notin LineTerminators
  ELSE IF ignoreCase THEN Canon(atom.ch) = Canon(c)
  ELSE atom.ch = c

\* the number of characters from pos on that the atom accepts
RECURSIVE RunLength(_, _, _, _)
RunLength(atom, s, pos, ignoreCase) ==
  IF pos <= Len(s) /\ AtomAccepts(atom, CharAt(s, pos), ignoreCase)
  THEN 1 + RunLength(atom, s, pos + 1, ignoreCase) ELSE 0

\* the backtracking matcher: atoms k.. against s from character pos (1-based);
\* the index after the match, or -1
RECURSIVE MatchAt(_, _, _, _, _)
RECURSIVE StarTry(_, _, _, _, _, _)
MatchAt(atoms, k, s, pos, ignoreCase) ==
  IF k > Len(atoms) THEN pos
  ELSE IF atoms[k].star
    THEN StarTry(atoms, k, s, pos, RunLength(atoms[k], s, pos, ignoreCase), ignoreCase)
  ELSE IF pos <= Len(s) /\ AtomAccepts(atoms[k], CharAt(s, pos), ignoreCase)
    THEN MatchAt(atoms, k + 1, s, pos + 1, ignoreCase)
  ELSE -1

\* greedy: the longest repetition first
StarTry(atoms, k, s, pos, t, ignoreCase) ==
  LET r == MatchAt(atoms, k + 1, s, pos + t, ignoreCase)
  IN IF r # -1 THEN r
     ELSE IF t = 0 THEN -1
     ELSE StarTry(atoms, k, s, pos, t - 1, ignoreCase)

\* the first start position from `from` on at which the pattern matches:
\* the index after that match, or -1
RECURSIVE FirstMatchEnd(_, _, _, _)
FirstMatchEnd(atoms, s, from, ignoreCase) ==
  IF from > Len(s) + 1 THEN -1
  ELSE LET e == MatchAt(atoms, 1, s, from, ignoreCase)
       IN IF e # -1 THEN e ELSE FirstMatchEnd(atoms, s, from + 1, ignoreCase)

\* regex.test(line) on a g-flag RegExp: the result and the new lastIndex
regexTest(rx, line) ==
  LET e == FirstMatchEnd(rx.atoms, line, rx.lastIndex + 1, Includes(rx.flags, "i"))
  IN IF rx.lastIndex > Len(line) \/ e = -1
     THEN [found |-> FALSE, lastIndex |-> 0]
     ELSE [found |-> TRUE, lastIndex |-> e - 1]

\* line.trim().substring(0, 200)
MatchTextLimit == 200
matchText(line) ==
  LET t == Trim(line) IN SubSeq(t, 1, Min(MatchTextLimit, Len(t)))

\* the mutation of the forEach callback that leaves out regex.lastIndex = 0
\* after a line that matched
RECURSIVE scanLines_noReset(_, _, _)
scanLines_noReset(lines, index, rx) ==
  IF index > Len(lines)
  THEN [fileMatches |-> <<>>, lastIndex |-> rx.lastIndex, tested |-> rx.tested]
  ELSE
    LET t    == regexTest(rx, lines[index])
        seen == rx.tested \cup {rx.lastIndex}
        rest == scanLines_noReset(lines, index + 1,
                                  [rx EXCEPT !.lastIndex = t.lastIndex, !.tested = seen])
    IN IF t.found
       THEN [rest EXCEPT !.fileMatches =
               <<[line |-> index, content |-> matchText(lines[index])]>> \o @]
       ELSE rest

\* the lines.forEach callback of search_code over one file: the matches
\* pushed, lastIndex after the last line, and the values lastIndex had at
\* the calls of regex.test
RECURSIVE scanLines(_, _, _)
scanLines(lines, index, rx) ==
  IF index > Len(lines)
  THEN [fileMatches |-> <<>>, lastIndex |-> rx.lastIndex, tested |-> rx.tested]
  ELSE
    LET t    == regexTest(rx, lines[index])
        seen == rx.tested \cup {rx.lastIndex}
    IN IF t.found THEN
         LET rest == scanLines(lines, index + 1,
                               [rx EXCEPT !.lastIndex = 0, !.tested = seen])
         IN [fileMatches |-> <<[line |-> index, content |-> matchText(lines[index])]>>
                             \o rest.fileMatches,
             lastIndex   |-> rest.lastIndex,
             tested      |-> rest.tested]
       ELSE scanLines(lines, index + 1,
                      [rx EXCEPT !.lastIndex = t.lastIndex, !.tested = seen])

\* the mutation of rankResults that leaves the results in completion order
rankResults_unsorted(rs) == rs

\* results.sort((a, b) => b.matchCount - a.matchCount)
rankResults(rs) == StableSort(rs, "count")

\* the mutation of topResults that cuts nothing
topResults_all(rs) == rs

\* results.slice(0, 50)
ResultLimit == 50
topResults(rs) == Slice(rs, 0, ResultLimit)

\* reads of up to MaxRace files complete in any order; of more files, in the
\* order issued or in the reverse order
MaxRace == 4

\* a search request is served by a server that has served no more than
\* MaxSearches - 1 of them
MaxSearches == 1

\* the mutation of Promise.all that does not wait
AllSettled_none == TRUE

\* await Promise.all(...): every callback started by the operation has returned
AllSettled == pending = {}

\* search_code up to Promise.all: the walk, the RegExp, and one readFile
\* issued per candidate file, in the order of files
search_code_start(query, case_sensitive, file_extensions) ==
  LET a == [query |-> query, case_sensitive |-> case_sensitive,
            file_extensions |-> file_extensions]
      extensions == IF Len(file_extensions) = 0 THEN DEFAULT_EXTENSIONS
                    ELSE file_extensions[1]
      flags == IF case_sensitive THEN "g" ELSE "gi"
  IN /\ pc = "idle"
     /\ nops < MaxSearches
     /\ nops' = nops + 1
     /\ req' = [name |-> "search_code", args |-> a]
     /\ fs' = fs
     /\ \E w \in {getFilesRecursively(fs, PROJECT_ROOT, extensions, NoArg)},
           rx \in {compile(escapeRegex(query))} :
          IF ~rx.ok
          THEN /\ log' = w.log
               /\ reply' = Failure(rx.val)
               /\ UNCHANGED scanVars
          ELSE /\ log' = w.log \o [i \in 1..Len(w.files) |->
                                     Ev("readFile", NoArg, pathJoin(PROJECT_ROOT, w.files[i]))]
               /\ reply' = Success("")
               /\ pc' = "scanning"
               /\ files' = w.files
               /\ pending' = 1..Len(w.files)
               /\ results' = <<>>
               /\ totalMatches' = 0
               /\ regex' = [atoms |-> rx.val, flags |-> flags, lastIndex |-> 0,
                            tested |-> {}]
               /\ order' \in (IF Len(w.files) <= MaxRace THEN {"any"}
                              ELSE {"issue", "reverse"})

\* the rest of one files.map callback, run when its readFile settles
ScanComplete ==
  \E i \in pending :
    /\ pc = "scanning"
    /\ \/ order = "any"
       \/ order = "issue" /\ \A j \in pending : i <= j
       \/ order = "reverse" /\ \A j \in pending : i >= j
    /\ pending' = pending \ {i}
    /\ LET file    == files[i]
           content == fsReadFile(fs, pathJoin(PROJECT_ROOT, file))
       IN IF ~content.ok
          THEN UNCHANGED <<results, totalMatches, regex>>       \* catch: skipped
          ELSE
            LET sc == scanLines(Split(content.val, "\n"), 1, regex)
                n  == Len(sc.fileMatches)
            IN /\ regex' = [regex EXCEPT !.lastIndex = sc.lastIndex,
                                         !.tested = sc.tested]
               /\ totalMatches' = totalMatches + n
               /\ results' =
                    IF n > 0
                    THEN Append(results, [file |-> file, matches |-> sc.fileMatches,
                                          matchCount |-> n])
                    ELSE results
    /\ UNCHANGED <<fs, req, log, reply, nops, pc, files, order>>

\* search_code after Promise.all: the sort and the report
search_code_finish ==
  /\ pc = "scanning"
  /\ AllSettled
  /\ results' = rankResults(results)
  /\ reply' = Success([query |-> req.args.query, totalMatches |-> totalMatches,
                       fileCount |-> Len(results'), results |-> topResults(results')])
  /\ pc' = "idle"
  /\ UNCHANGED <<fs, req, log, nops, files, pending, totalMatches, regex, order>>

(***************************************************************************)
(* A project to search: three readable .php files whose lines are made of  *)
(* letters in both cases, "." and "*", and one that cannot be read         *)
(***************************************************************************)

SearchProject ==
     (PROJECT_ROOT       :> Dir(<<"x.php", "y.php", "lost.php", "z.php", "n.txt">>))
  @@ (In("x.php")        :> File("a\nA.b\n axb \nb"))
  @@ (In("y.php")        :> File("*\na.b"))
  @@ (In("lost.php")     :> BrokenLink)
  @@ (In("z.php")        :> File("a\nba\n.*\nab\nA\nBa"))
  @@ (In("n.txt")        :> File("a\n(b\\"))

InitSearch ==
  /\ fs = Outside @@ SearchProject
  /\ req = Idle
  /\ log = <<>>
  /\ reply = Success("")
  /\ nops = 0
  /\ NoScan

MaxQueryLen == 2
QueryChars == {"a", "."}

RECURSIVE Queries(_)
Queries(n) ==
  IF n = 0 THEN {""}
  ELSE LET shorter == Queries(n - 1)
       IN shorter \cup {q \o c : q \in shorter, c \in QueryChars}

QueryArgs ==
  Queries(MaxQueryLen) \cup {"a.b", "B", "Ba", "*", "a*", ".*", "(", "\\", "[b"}
ExtensionArgs == {<<>>, <<<<".php", ".txt">>>>}

Call_search_code ==
  \E q \in QueryArgs, cs \in BOOLEAN, exts \in ExtensionArgs :
    search_code_start(q, cs, exts)

NextSearch ==
  \/ Call_search_code
  \/ ScanComplete
  \/ search_code_finish

SpecSearch == InitSearch /\ [][NextSearch]_vars

(***************************************************************************)
(* A project with more matching files than a report holds                  *)
(***************************************************************************)

BigFiles == 64

BigName(i) == "f" \o ToString(i) \o ".php"

\* file i has i mod 5 lines "a" and then a line "b"
BigContent(i) == Join([k \in 1..(i % 5) |-> "a"] \o <<"b">>, "\n")

BigProject ==
     (PROJECT_ROOT :> Dir([i \in 1..BigFiles |-> BigName(i)]))
  @@ [p \in {In(BigName(i)) : i \in 1..BigFiles} |->
        File(BigContent(CHOOSE i \in 1..BigFiles : In(BigName(i)) = p))]

InitSearchBig ==
  /\ fs = Outside @@ BigProject
  /\ req = Idle
  /\ log = <<>>
  /\ reply = Success("")
  /\ nops = 0
  /\ NoScan

Call_search_code_big ==
  \E q \in {"a", "b", "zz"} : search_code_start(q, FALSE, <<>>)

NextSearchBig ==
  \/ Call_search_code_big
  \/ ScanComplete
  \/ search_code_finish

SpecSearchBig == InitSearchBig /\ [][NextSearchBig]_vars

(***************************************************************************)
(* Properties of search_code                                               *)
(***************************************************************************)

\* the text with its upper-case letters replaced by the lower-case ones
RECURSIVE LowerCased(_)
LowerCased(s) ==
  IF Len(s) = 0 THEN "" ELSE Canon(CharAt(s, 1)) \o LowerCased(Tail(s))

\* q occurs in line as a substring
ContainsText(line, q) ==
  \E i \in 1..(Len(line) - Len(q) + 1) : SubSeq(line, i, i + Len(q) - 1) = q

\* the lines of a candidate file that contain the query of the request,
\* compared as the request asks
LinesWithQuery(file) ==
  LET rd    == fsReadFile(fs, In(file))
      lines == Split(rd.val, "\n")
      q     == req.args.query
  IN IF ~rd.ok THEN {}
     ELSE {n \in 1..Len(lines) :
             IF req.args.case_sensitive THEN ContainsText(lines[n], q)
             ELSE ContainsText(LowerCased(lines[n]), LowerCased(q))}

\* the line numbers reported for a file in a list of per-file results
ReportedLines(rs, file) ==
  UNION {{rs[k].matches[m].line : m \in 1..Len(rs[k].matches)} :
           k \in {k \in 1..Len(rs) : rs[k].file = file}}

\* C6: search_code treats the query as literal text: a line of a scanned file
\* is reported exactly when it contains the query as a substring, compared
\* case-insensitively unless case_sensitive is set, and no query makes the
\* search fail.
C6_LiteralMatch ==
  req.name = "search_code" =>
    /\ ~reply.isError
    /\ \A i \in (1..Len(files)) \ pending :
         ReportedLines(results, files[i]) = LinesWithQuery(files[i])

\* the query a.b, case-insensitive: in x.php the line "A.b" is reported and
\* the line " axb " is not
C6_Witness ==
  /\ req.name = "search_code"
  /\ req.args.query = "a.b"
  /\ ~req.args.case_sensitive
  /\ pc = "idle"
  /\ ReportedLines(results, "x.php") = {2}

SearchReported == req.name = "search_code" /\ pc = "idle" /\ ~reply.isError

\* C7: the files of a search_code report are in order of non-increasing match
\* count, whatever order the per-file scans completed in.
C7_RankedByCount ==
  SearchReported =>
    \A i, j \in 1..Len(reply.body.results) :
      i < j => reply.body.results[i].matchCount >= reply.body.results[j].matchCount

\* files found in the order x.php (3 matches), y.php (1), z.php (5) and
\* reported in the order 5, 3, 1
C7_Witness ==
  /\ SearchReported
  /\ files = <<"x.php", "y.php", "lost.php", "z.php">>
  /\ [i \in 1..Len(reply.body.results) |-> reply.body.results[i].matchCount] = <<5, 3, 1>>

\* count[lo] + ... + count[hi]
RECURSIVE SumOver(_, _, _)
SumOver(count, lo, hi) ==
  IF lo > hi THEN 0
  ELSE IF lo = hi THEN count[lo]
  ELSE SumOver(count, lo, (lo + hi) \div 2) + SumOver(count, (lo + hi) \div 2 + 1, hi)

\* C8: totalMatches is the sum of the match counts of all files with a match,
\* fileCount is the number of those files, and the results list holds exactly
\* min(50, fileCount) entries, the files with the highest match counts.
C8_TotalsAndTop ==
  SearchReported =>
    LET count     == [i \in 1..Len(files) |-> Cardinality(LinesWithQuery(files[i]))]
        Count(i)  == count[i]
        matching  == {i \in 1..Len(files) : Count(i) > 0}
        shown     == reply.body.results
        shownIdx  == {i \in matching : \E k \in 1..Len(shown) : shown[k].file = files[i]}
    IN /\ reply.body.totalMatches = SumOver(count, 1, Len(files))
       /\ reply.body.fileCount = Cardinality(matching)
       /\ Len(shown) = Min(50, Cardinality(matching))
       /\ Cardinality(shownIdx) = Len(shown)
       /\ \A k \in 1..Len(shown) :
            \E i \in shownIdx : shown[k].file = files[i] /\ shown[k].matchCount = Count(i)
       /\ \A i \in shownIdx, j \in matching \ shownIdx : Count(i) >= Count(j)

\* a report from which matching files were cut
C8_Witness ==
  /\ SearchReported
  /\ reply.body.fileCount = 52
  /\ Len(reply.body.results) = 50
  /\ reply.body.totalMatches = 130

(***************************************************************************)
(* search_and_replace on one file, over every short content made of two    *)
(* letters and the line separator                                          *)
(***************************************************************************)

MaxLen == 3
TextChars == {"a", "b", "\n"}

RECURSIVE Texts(_)
Texts(n) ==
  IF n = 0 THEN {""}
  ELSE Texts(n - 1) \cup {t \o c : t \in {t \in Texts(n - 1) : Len(t) = n - 1}, c \in TextChars}

ReplaceProject(text) ==
     (PROJECT_ROOT   :> Dir(<<"t.txt">>))
  @@ (In("t.txt")    :> File(text))

InitReplace ==
  /\ fs \in {Outside @@ ReplaceProject(t) : t \in Texts(MaxLen)}
  /\ req = Idle
  /\ log = <<>>
  /\ reply = Success("")
  /\ nops = 0
  /\ NoScan

\* a server that has served no more than MaxReplaces - 1 requests serves one
MaxReplaces == 1

SearchArgs == {"", "a", "ab", "\n"}
ReplaceArgs == {"", "b", "aa", "a\nb", "$&b", "$$", "$'"}

Call_replace ==
  \E s \in SearchArgs, r \in ReplaceArgs :
    LET a == [path |-> "t.txt", search |-> s, replace |-> r]
    IN /\ nops < MaxReplaces
       /\ Serve("search_and_replace", a, search_and_replace(fs, a))

NextReplace == Call_replace

SpecReplace == InitReplace /\ [][NextReplace]_vars

(***************************************************************************)
(* Properties of search_and_replace                                        *)
(***************************************************************************)

\* the step serves a search_and_replace request on a file that can be read
ReplaceStep ==
  /\ nops' = nops + 1
  /\ req'.name = "search_and_replace"
  /\ fsReadFile(fs, In(req'.args.path)).ok

\* the lines of the requested file before and after the step
LinesBefore == Split(fs[In(req'.args.path)].content, "\n")
LinesAfter  == Split(fs'[In(req'.args.path)].content, "\n")

\* the numbers of the lines that contain the search text before the step
LinesToChange ==
  {n \in 1..Len(LinesBefore) : ContainsText(LinesBefore[n], req'.args.search)}

WriteEvents(lg) == {k \in 1..Len(lg) : lg[k].op = "writeFile"}

\* C9: search_and_replace on a file in which no line contains the search text
\* performs no write at all: it reports an empty change list and the file
\* system is as before.
C9_NoMatchNoWrite ==
  [][ReplaceStep /\ LinesToChange = {} =>
        /\ ~reply'.isError
        /\ reply'.body.changes = <<>>
        /\ WriteEvents(log') = {}
        /\ fs' = fs]_vars

\* the search text ab on a file whose content has a and b on different lines
C9_Witness ==
  /\ req.name = "search_and_replace"
  /\ req.args.search = "ab"
  /\ fs[In("t.txt")].content = "a\nb"
  /\ ~reply.isError
  /\ reply.body.changes = <<>>

\* the pieces of s between the occurrences of a non-empty text, found from
\* left to right
RECURSIVE PiecesFrom(_, _, _, _)
PiecesFrom(s, sep, i, cur) ==
  IF i > Len(s) THEN <<cur>>
  ELSE IF i + Len(sep) - 1 <= Len(s) /\ SubSeq(s, i, i + Len(sep) - 1) = sep
    THEN <<cur>> \o PiecesFrom(s, sep, i + Len(sep), "")
  ELSE PiecesFrom(s, sep, i + 1, cur \o CharAt(s, i))

\* the line with every occurrence of the search text replaced by the
\* replacement text; the empty text occurs before every character and at the end
Replaced(line, search, replace) ==
  IF Len(search) = 0
  THEN Join([i \in 1..(Len(line) + 2) |->
               IF i = 1 \/ i = Len(line) + 2 THEN "" ELSE CharAt(line, i - 1)], replace)
  ELSE Join(PiecesFrom(line, search, 1, ""), replace)

\* C10: when at least one line contains the search text, search_and_replace
\* rewrites the file so that every line that contained the search text has all
\* of its occurrences replaced, every other line is as before, the line count
\* and order are preserved, and the change list has exactly one entry, with
\* the 1-based line number, for each line that contained the search text.
C10_RewriteExact ==
  [][ReplaceStep /\ LinesToChange # {} =>
        /\ ~reply'.isError
        /\ Len(LinesAfter) = Len(LinesBefore)
        /\ \A n \in 1..Len(LinesBefore) :
             n <= Len(LinesAfter) /\
             LinesAfter[n] = IF n \in LinesToChange
                             THEN Replaced(LinesBefore[n], req'.args.search, req'.args.replace)
                             ELSE LinesBefore[n]
        /\ Len(reply'.body.changes) = Cardinality(LinesToChange)
        /\ {reply'.body.changes[k].line : k \in 1..Len(reply'.body.changes)} = LinesToChange]_vars

\* the same, for replacement texts in which no "$" and no line separator occurs
C10_RewriteExactPlain ==
  [][ReplaceStep /\ LinesToChange # {}
      /\ ~ContainsText(req'.args.replace, "$") /\ ~ContainsText(req'.args.replace, "\n") =>
        /\ ~reply'.isError
        /\ Len(LinesAfter) = Len(LinesBefore)
        /\ \A n \in 1..Len(LinesBefore) :
             LinesAfter[n] = IF n \in LinesToChange
                             THEN Replaced(LinesBefore[n], req'.args.search, req'.args.replace)
                             ELSE LinesBefore[n]
        /\ Len(reply'.body.changes) = Cardinality(LinesToChange)
        /\ {reply'.body.changes[k].line : k \in 1..Len(reply'.body.changes)} = LinesToChange]_vars

(***************************************************************************)
(* analyze_php_file on one file, over every text of up to MaxLines lines   *)
(* taken from namespace declarations, use lines, class headers and a       *)
(* comment                                                                 *)
(***************************************************************************)

MaxLines == 3

NamespaceLines == {"namespace App\\Models;", "namespace Other;"}
UseLines == {"use App\\Models\\User;", "  use HasFactory;"}
HeaderLines == {"class User extends Model implements Authenticatable",
                "final class Admin extends User implements A , B,, {",
                "interface Shape"}
PhpLines == NamespaceLines \cup UseLines \cup HeaderLines \cup {"// note"}

RECURSIVE LineSeqs(_)
LineSeqs(n) ==
  IF n = 0 THEN {<<>>}
  ELSE LineSeqs(n - 1)
       \cup {Append(t, l) : t \in {t \in LineSeqs(n - 1) : Len(t) = n - 1}, l \in PhpLines}

PhpProject(text) ==
     (PROJECT_ROOT   :> Dir(<<"m.php">>))
  @@ (In("m.php")    :> File(text))

InitAnalyze ==
  /\ fs \in {Outside @@ PhpProject(Join(t, "\n")) : t \in LineSeqs(MaxLines)}
  /\ req = Idle
  /\ log = <<>>
  /\ reply = Success("")
  /\ nops = 0
  /\ NoScan

\* a server that has served no more than MaxAnalyses - 1 requests serves one
MaxAnalyses == 1

Call_analyze ==
  LET a == [path |-> "m.php"]
  IN /\ nops < MaxAnalyses
     /\ Serve("analyze_php_file", a, analyze_php_file(fs, a))

NextAnalyze == Call_analyze

SpecAnalyze == InitAnalyze /\ [][NextAnalyze]_vars

(***************************************************************************)
(* Properties of analyze_php_file                                          *)
(***************************************************************************)

\* what each line of PhpLines declares, read off the line by hand
NamespaceOf ==
  ("namespace App\\Models;" :> "App\\Models") @@ ("namespace Other;" :> "Other")

UseOf ==
  ("use App\\Models\\User;" :> "App\\Models\\User") @@ ("  use HasFactory;" :> "HasFactory")

HeaderOf ==
     ("class User extends Model implements Authenticatable" :>
        [type |-> "class", name |-> "User", extends |-> "Model",
         implements |-> <<"Authenticatable">>])
  @@ ("final class Admin extends User implements A , B,, {" :>
        [type |-> "class", name |-> "Admin", extends |-> "User",
         implements |-> <<"A", "B">>])
  @@ ("interface Shape" :>
        [type |-> "interface", name |-> "Shape", extends |-> JsNull, implements |-> <<>>])

Analyzed == req.name = "analyze_php_file" /\ ~reply.isError
AnalyzedLines == Split(fs[In(req.args.path)].content, "\n")
LinesIn(S) == {i \in 1..Len(AnalyzedLines) : AnalyzedLines[i] \in S}
First(S) == CHOOSE i \in S : \A j \in S : i <= j

\* C11: the reported namespace is that of the first line of namespace-
\* declaration shape; later namespace lines never change it.
C11_FirstNamespaceWins ==
  Analyzed /\ LinesIn(NamespaceLines) # {} =>
    reply.body.namespace = NamespaceOf[AnalyzedLines[First(LinesIn(NamespaceLines))]]

\* C12: className, classType, extends and implements come from the first
\* class/interface/trait/enum header line; no later header line changes them.
C12_FirstHeaderWins ==
  Analyzed =>
    IF LinesIn(HeaderLines) = {}
    THEN /\ reply.body.className = JsNull /\ reply.body.classType = JsNull
         /\ reply.body.extends = JsNull /\ reply.body.implements = <<>>
    ELSE LET h == HeaderOf[AnalyzedLines[First(LinesIn(HeaderLines))]]
         IN /\ reply.body.className = h.name
            /\ reply.body.classType = h.type
            /\ reply.body.extends = h.extends
            /\ reply.body.implements = h.implements

\* a header without parent followed by a header with parent and interfaces
C12_Witness ==
  /\ Analyzed
  /\ AnalyzedLines = <<"interface Shape", "class User extends Model implements Authenticatable">>
  /\ reply.body.className = "Shape"
  /\ reply.body.extends = JsNull

\* the use lines recorded as trait-uses: after a header line, name unqualified
TraitUses ==
  {i \in LinesIn(UseLines) :
     /\ \E j \in LinesIn(HeaderLines) : j < i
     /\ ~ContainsText(UseOf[AnalyzedLines[i]], "\\")}

\* the elements of a set of line numbers in increasing order
InOrder(S) ==
  [k \in 1..Cardinality(S) |-> CHOOSE i \in S : Cardinality({j \in S : j < i}) = k - 1]

\* C13: every line matching the use rule is recorded exactly once: in traits
\* when a header was seen on an earlier line and the name has no namespace
\* separator, otherwise in imports with its 1-based line number.
C13_EveryUseRecordedOnce ==
  Analyzed =>
    /\ reply.body.traits =
         [k \in 1..Cardinality(TraitUses) |-> UseOf[AnalyzedLines[InOrder(TraitUses)[k]]]]
    /\ reply.body.imports =
         LET imp == InOrder(LinesIn(UseLines) \ TraitUses)
         IN [k \in 1..Len(imp) |->
               [statement |-> UseOf[AnalyzedLines[imp[k]]], line |-> imp[k]]]

\* C14: for a text with one namespace declaration and then a first header with
\* extends and implements clauses, the report has the namespace, the class
\* name and kind, the parent, the trimmed non-empty interface names and
\* fullClassName = namespace \ className; and fullClassName is present exactly
\* when a namespace and a class name were captured.
C14_NamespaceAndHeader ==
  Analyzed =>
    /\ ("fullClassName" \in DOMAIN reply.body) <=>
         (reply.body.namespace # JsNull /\ reply.body.className # JsNull)
    /\ \A i \in LinesIn(NamespaceLines), j \in LinesIn(HeaderLines) :
         /\ LinesIn(NamespaceLines) = {i}
         /\ j = First(LinesIn(HeaderLines))
         /\ i < j
         /\ HeaderOf[AnalyzedLines[j]].extends # JsNull
         => LET h == HeaderOf[AnalyzedLines[j]]
                n == NamespaceOf[AnalyzedLines[i]]
            IN /\ reply.body.namespace = n
               /\ reply.body.className = h.name
               /\ reply.body.classType = h.type
               /\ reply.body.extends = h.extends
               /\ reply.body.implements = h.implements
               /\ "fullClassName" \in DOMAIN reply.body
               /\ reply.body.fullClassName = n \o "\\" \o h.name

\* namespace App\Models; then class User extends Model implements Authenticatable
C14_Witness ==
  /\ Analyzed
  /\ AnalyzedLines = <<"namespace App\\Models;",
                       "class User extends Model implements Authenticatable">>
  /\ reply.body = [file |-> "m.php", namespace |-> "App\\Models", className |-> "User",
                   classType |-> "class", extends |-> "Model",
                   implements |-> <<"Authenticatable">>, traits |-> <<>>,
                   imports |-> <<>>, fullClassName |-> "App\\Models\\User"]

(***************************************************************************)
(* find_class_usages: the four patterns built around the short name, each  *)
(* matched under the i flag.  The short name is a PHP identifier, so it     *)
(* stands for itself in the patterns.                                      *)
(***************************************************************************)

\* lit occurs at i, letters compared in either case
LitAtCI(s, i, lit) ==
  /\ i >= 1
  /\ i + Len(lit) - 1 <= Len(s)
  /\ \A k \in 1..Len(lit) : Canon(CharAt(s, i + k - 1)) = Canon(CharAt(lit, k))

\* \b before the character at i
Boundary(s, i) ==
  (i >= 2 /\ i - 1 <= Len(s) /\ IsWord(CharAt(s, i - 1)))
    # (i <= Len(s) /\ IsWord(CharAt(s, i)))

\* new RegExp(keyword\s+.*\bname\b, "i").test(line)
KeywordUsage(line, keyword, name) ==
  \E p \in 1..Len(line) :
    /\ LitAtCI(line, p, keyword)
    /\ IsSpace(CharAt(line, p + Len(keyword)))
    /\ \E q \in (p + Len(keyword) + 1)..Len(line) :
         /\ LitAtCI(line, q, name)
         /\ Boundary(line, q)
         /\ Boundary(line, q + Len(name))
         /\ \A t \in (SpaceEnd(line, p + Len(keyword)))..(q - 1) :
              CharAt(line, t) \notin LineTerminators

\* new RegExp((new\s+name|name::|:\s*name\b), "i").test(line)
ReferenceUsage(line, name) ==
  \E p \in 1..Len(line) :
    \/ /\ LitAtCI(line, p, "new")
       /\ SpaceEnd(line, p + 3) > p + 3
       /\ LitAtCI(line, SpaceEnd(line, p + 3), name)
    \/ LitAtCI(line, p, name \o "::")
    \/ /\ CharAt(line, p) = ":"
       /\ LitAtCI(line, SpaceEnd(line, p + 1), name)
       /\ Boundary(line, SpaceEnd(line, p + 1) + Len(name))

\* args.class_name.includes("\\") ? args.class_name.split("\\").pop() : args.class_name
shortNameOf(class_name) ==
  IF Includes(class_name, "\\")
  THEN LET parts == Split(class_name, "\\") IN parts[Len(parts)]
  ELSE class_name

NoUsages == [imports |-> <<>>, extends |-> <<>>, implements |-> <<>>, references |-> <<>>]

\* the mutation of the four tests into one chain in which the first hit wins
classifyLine_firstOnly(rs, file, line, lineNum, shortName) ==
  LET e == [file |-> file, line |-> lineNum, content |-> Trim(line)]
  IN IF KeywordUsage(line, "use", shortName) THEN [rs EXCEPT !.imports = Append(@, e)]
     ELSE IF KeywordUsage(line, "extends", shortName) THEN [rs EXCEPT !.extends = Append(@, e)]
     ELSE IF KeywordUsage(line, "implements", shortName)
       THEN [rs EXCEPT !.implements = Append(@, e)]
     ELSE IF ReferenceUsage(line, shortName) THEN [rs EXCEPT !.references = Append(@, e)]
     ELSE rs

\* the four tests of the lines.forEach callback on one line
classifyLine(rs, file, line, lineNum, shortName) ==
  LET e == [file |-> file, line |-> lineNum, content |-> Trim(line)]
      Add(list, hit) == IF hit THEN Append(list, e) ELSE list
  IN [imports    |-> Add(rs.imports, KeywordUsage(line, "use", shortName)),
      extends    |-> Add(rs.extends, KeywordUsage(line, "extends", shortName)),
      implements |-> Add(rs.implements, KeywordUsage(line, "implements", shortName)),
      references |-> Add(rs.references, ReferenceUsage(line, shortName))]

\* lines.forEach of find_class_usages
RECURSIVE classifyLines(_, _, _, _, _)
classifyLines(rs, file, lines, index, shortName) ==
  IF index > Len(lines) THEN rs
  ELSE classifyLines(classifyLine(rs, file, lines[index], index, shortName),
                     file, lines, index + 1, shortName)

\* reads of more than MaxRace files complete in the order issued or in the
\* reverse order
CompletionOrders(n) == IF n <= MaxRace THEN {"any"} ELSE {"issue", "reverse"}

\* the callback of index i may be the next to run
MayComplete(i) ==
  /\ i \in pending
  /\ \/ order = "any"
     \/ order = "issue" /\ \A j \in pending : i <= j
     \/ order = "reverse" /\ \A j \in pending : i >= j

\* a server that has served no more than MaxFinds - 1 requests serves one
MaxFinds == 1

\* find_class_usages up to Promise.all: the short name, the walk, and one
\* readFile issued per .php file
find_class_usages_start(class_name) ==
  LET a == [class_name |-> class_name]
  IN /\ pc = "idle"
     /\ nops < MaxFinds
     /\ nops' = nops + 1
     /\ req' = [name |-> "find_class_usages", args |-> a]
     /\ fs' = fs
     /\ \E w \in {getFilesRecursively(fs, PROJECT_ROOT, <<".php">>, NoArg)} :
          /\ log' = w.log \o [i \in 1..Len(w.files) |->
                                Ev("readFile", NoArg, pathJoin(PROJECT_ROOT, w.files[i]))]
          /\ files' = w.files
          /\ pending' = 1..Len(w.files)
          /\ order' \in CompletionOrders(Len(w.files))
     /\ reply' = Success("")
     /\ pc' = "finding"
     /\ results' = NoUsages
     /\ UNCHANGED <<totalMatches, regex>>

\* the rest of one files.map callback of find_class_usages
UsageScanComplete ==
  \E i \in pending :
    /\ pc = "finding"
    /\ MayComplete(i)
    /\ pending' = pending \ {i}
    /\ LET content == fsReadFile(fs, pathJoin(PROJECT_ROOT, files[i]))
       IN results' = IF ~content.ok THEN results            \* catch: skipped
                     ELSE classifyLines(results, files[i], Split(content.val, "\n"), 1,
                                        shortNameOf(req.args.class_name))
    /\ UNCHANGED <<fs, req, log, reply, nops, pc, files, totalMatches, regex, order>>

\* find_class_usages after Promise.all: the total and the report
find_class_usages_finish ==
  /\ pc = "finding"
  /\ AllSettled
  /\ reply' = Success([className   |-> req.args.class_name,
                       shortName   |-> shortNameOf(req.args.class_name),
                       totalUsages |-> Len(results.imports) + Len(results.extends)
                                       + Len(results.implements) + Len(results.references),
                       imports     |-> results.imports,
                       extends     |-> results.extends,
                       implements  |-> results.implements,
                       references  |-> results.references])
  /\ pc' = "idle"
  /\ UNCHANGED <<fs, req, log, nops, files, pending, results, totalMatches, regex, order>>

(***************************************************************************)
(* read_multiple_files as the callbacks run: each callback calls           *)
(* resolvePath and issues its readFile when paths.map starts it, and       *)
(* stores its result when the read settles                                 *)
(***************************************************************************)

\* results[filePath] = { success, content | error }
Store(rs, filePath, value) == [p \in DOMAIN rs \cup {filePath} |-> IF p = filePath THEN value ELSE rs[p]]

RECURSIVE startEach(_, _, _)
startEach(paths, i, acc) ==
  IF i > Len(paths) THEN acc
  ELSE LET r == resolvePath(paths[i])
       IN startEach(paths, i + 1,
            IF r.ok
            THEN [acc EXCEPT !.log = @ \o <<ResolveEv(paths[i], r), Ev("readFile", paths[i], r.val)>>,
                             !.pending = @ \cup {i}]
            ELSE [acc EXCEPT !.log = Append(@, ResolveEv(paths[i], r)),
                             !.results = Store(@, paths[i], [success |-> FALSE, text |-> r.val])])

\* a server that has served no more than MaxBulkReads - 1 requests serves one
MaxBulkReads == 1

read_multiple_files_start(paths) ==
  LET a == [paths |-> paths]
      s == startEach(paths, 1, [log |-> <<>>, pending |-> {}, results |-> <<>>])
  IN /\ pc = "idle"
     /\ nops < MaxBulkReads
     /\ nops' = nops + 1
     /\ req' = [name |-> "read_multiple_files", args |-> a]
     /\ log' = s.log
     /\ files' = paths
     /\ pending' = s.pending
     /\ results' = s.results
     /\ order' \in CompletionOrders(Len(paths))
     /\ reply' = Success("")
     /\ pc' = "reading"
     /\ UNCHANGED <<fs, totalMatches, regex>>

\* the rest of one paths.map callback: the read settled
ReadComplete ==
  \E i \in pending :
    /\ pc = "reading"
    /\ MayComplete(i)
    /\ pending' = pending \ {i}
    /\ LET c == fsReadFile(fs, resolvePath(files[i]).val)
       IN results' = Store(results, files[i], [success |-> c.ok, text |-> c.val])
    /\ UNCHANGED <<fs, req, log, reply, nops, pc, files, totalMatches, regex, order>>

read_multiple_files_finish ==
  /\ pc = "reading"
  /\ AllSettled
  /\ reply' = Success(results)
  /\ pc' = "idle"
  /\ UNCHANGED <<fs, req, log, nops, files, pending, results, totalMatches, regex, order>>

(***************************************************************************)
(* The operations that fan out over files, on two projects: the two files   *)
(* of the usage scenario, and a project with lines that fall under several *)
(* categories, a file that cannot be read and a file that is not PHP        *)
(***************************************************************************)

ScenarioProject ==
     (PROJECT_ROOT   :> Dir(<<"u.php", "a.php">>))
  @@ (In("u.php")    :> File("use App\\Models\\User;"))
  @@ (In("a.php")    :> File("class Admin extends User"))

UsageProject ==
     (PROJECT_ROOT   :> Dir(<<"u.php", "lost.php", "k.php", "a.php", "n.txt">>))
  @@ (In("u.php")    :> File("use App\\Models\\User;\n// refuse  Base"))
  @@ (In("lost.php") :> BrokenLink)
  @@ (In("k.php")    :> File("class K extends Base implements User\n $u = new User; User::find(1)\nfunction f(): user"))
  @@ (In("a.php")    :> File("class Admin extends User"))
  @@ (In("n.txt")    :> File("use User"))

InitFan ==
  /\ fs \in {Outside @@ ScenarioProject, Outside @@ UsageProject}
  /\ req = Idle
  /\ log = <<>>
  /\ reply = Success("")
  /\ nops = 0
  /\ NoScan

ClassNameArgs == {"User", "App\\Models\\User", "user", "Base", "Nobody"}

Call_find_class_usages == \E c \in ClassNameArgs : find_class_usages_start(c)

BulkPathArgs == {<<>>, <<"u.php", "a.php">>, <<"a.php", "lost.php", "../../etc/passwd", "u.php">>,
                 <<"u.php", "u.php">>}

Call_read_multiple_files_fan == \E ps \in BulkPathArgs : read_multiple_files_start(ps)

Call_search_code_fan ==
  \E q \in {"User", "zz"}, cs \in BOOLEAN : search_code_start(q, cs, <<>>)

NextFan ==
  \/ Call_find_class_usages
  \/ UsageScanComplete
  \/ find_class_usages_finish
  \/ Call_read_multiple_files_fan
  \/ ReadComplete
  \/ read_multiple_files_finish
  \/ Call_search_code_fan
  \/ ScanComplete
  \/ search_code_finish

SpecFan == InitFan /\ [][NextFan]_vars

(***************************************************************************)
(* Properties of find_class_usages and of the fan-in                       *)
(***************************************************************************)

\* the short name of each class name asked for, read off by hand
ShortOf ==
  ("User" :> "User") @@ ("App\\Models\\User" :> "User") @@ ("user" :> "user")
  @@ ("Base" :> "Base") @@ ("Nobody" :> "Nobody")

\* the lines of UsageProject under each category, as <<file, line>>, read off
\* by hand for the names User (in either case) and Base
UsagesOfUser ==
  [imports    |-> {<<"u.php", 1>>},
   extends    |-> {<<"k.php", 1>>, <<"a.php", 1>>},
   implements |-> {<<"k.php", 1>>},
   references |-> {<<"k.php", 2>>, <<"k.php", 3>>}]

UsagesOfBase ==
  [imports |-> {<<"u.php", 2>>}, extends |-> {<<"k.php", 1>>}, implements |-> {},
   references |-> {}]

UsagesOfNobody == [imports |-> {}, extends |-> {}, implements |-> {}, references |-> {}]

ExpectedUsages ==
  IF fs[PROJECT_ROOT] = ScenarioProject[PROJECT_ROOT]
  THEN IF ShortOf[req.args.class_name] \in {"User", "user"}
       THEN [imports |-> {<<"u.php", 1>>}, extends |-> {<<"a.php", 1>>},
             implements |-> {}, references |-> {}]
       ELSE UsagesOfNobody
  ELSE IF ShortOf[req.args.class_name] \in {"User", "user"} THEN UsagesOfUser
  ELSE IF ShortOf[req.args.class_name] = "Base" THEN UsagesOfBase
  ELSE UsagesOfNobody

UsagesReported == req.name = "find_class_usages" /\ pc = "idle" /\ ~reply.isError

Places(list) == {<<list[k].file, list[k].line>> : k \in 1..Len(list)}

Categories == {"imports", "extends", "implements", "references"}

\* C15: the class name is reduced to its last segment; every line of every
\* .php file is tested against the four patterns independently, so it is in
\* each category it matches exactly once; totalUsages is the sum of the four
\* list lengths, whatever order the file scans finish in.
C15_UsagesByCategory ==
  UsagesReported =>
    /\ reply.body.shortName = ShortOf[req.args.class_name]
    /\ \A c \in Categories :
         /\ Places(reply.body[c]) = ExpectedUsages[c]
         /\ Len(reply.body[c]) = Cardinality(ExpectedUsages[c])
         /\ \A k \in 1..Len(reply.body[c]) :
              reply.body[c][k].content =
                Trim(Split(fs[In(reply.body[c][k].file)].content, "\n")[reply.body[c][k].line])
    /\ reply.body.totalUsages =
         Cardinality(ExpectedUsages.imports) + Cardinality(ExpectedUsages.extends)
         + Cardinality(ExpectedUsages.implements) + Cardinality(ExpectedUsages.references)

\* the scenario: use App\Models\User; in one file, class Admin extends User in
\* another
C15_Witness ==
  /\ UsagesReported
  /\ fs[PROJECT_ROOT] = ScenarioProject[PROJECT_ROOT]
  /\ req.args.class_name = "App\\Models\\User"
  /\ reply.body.totalUsages = 2
  /\ reply.body.imports = <<[file |-> "u.php", line |-> 1, content |-> "use App\\Models\\User;"]>>
  /\ reply.body.extends = <<[file |-> "a.php", line |-> 1, content |-> "class Admin extends User"]>>

FanOps == {"read_multiple_files", "search_code", "find_class_usages"}

\* the reads the operation issued: one per readFile call in its log
ReadsIssued == Cardinality({k \in 1..Len(log) : log[k].op = "readFile"})

\* the report holds the outcome of every read
ReportComplete ==
  IF req.name = "read_multiple_files"
    THEN /\ DOMAIN reply.body = {req.args.paths[k] : k \in 1..Len(req.args.paths)}
         /\ \A p \in DOMAIN reply.body :
              IF resolvePath(p).ok
              THEN LET c == fsReadFile(fs, resolvePath(p).val)
                   IN reply.body[p] = [success |-> c.ok, text |-> c.val]
              ELSE reply.body[p] = [success |-> FALSE, text |-> AccessDenied]
  ELSE IF req.name = "search_code"
    THEN reply.body.fileCount =
           Cardinality({i \in 1..Len(files) : LinesWithQuery(files[i]) # {}})
  ELSE \A c \in Categories : Places(reply.body[c]) = ExpectedUsages[c]

\* C16: in read_multiple_files, search_code and find_class_usages the report
\* is built only after every read the operation started has completed: once
\* it is built no callback is outstanding (so none writes into the result
\* after it) and it holds the outcome of every file.
C16_FanIn ==
  req.name \in FanOps /\ pc = "idle" /\ ~reply.isError =>
    /\ pending = {}
    /\ ReportComplete

\* a bulk read of four paths, one rejected and one unreadable, has reported;
\* three reads were issued
C16_Witness ==
  /\ req.name = "read_multiple_files"
  /\ pc = "idle"
  /\ Len(req.args.paths) = 4
  /\ ReadsIssued = 3
  /\ reply.body["u.php"].success
  /\ ~reply.body["lost.php"].success


(***************************************************************************)
(* Laravel server: buildTree and get_project_structure.  The box-drawing   *)
(* characters of the connectors are written in ASCII: a corner for the     *)
(* last sibling, a tee for the others, a bar for the continuation.         *)
(***************************************************************************)

LastConnector == "\\-- "
TeeConnector  == "|-- "
LastExtension == "    "
BarExtension  == "|   "

\* the mutation of the connector choice that gives every sibling the tee
connectorOf_tee(isLast) == TeeConnector

\* const connector = isLast ? last : tee
connectorOf(isLast) == IF isLast THEN LastConnector ELSE TeeConnector

\* const extension = isLast ? blank : bar
extensionOf(isLast) == IF isLast THEN LastExtension ELSE BarExtension

\* buildTree: the text and the readdir calls made
RECURSIVE buildTree(_, _, _, _, _)
RECURSIVE treeLines(_, _, _, _, _, _, _)
buildTree(f, dirPath, prefix, depth, maxDepth) ==
  IF depth >= maxDepth THEN [text |-> "", log |-> <<>>]
  ELSE LET rd == fsReaddir(f, dirPath)
           ev == Ev("readdir", NoArg, dirPath)
       IN IF ~rd.ok THEN [text |-> "", log |-> <<ev>>]     \* catch: skipped
          ELSE LET shown    == SelectSeq(rd.val, LAMBDA e : ~StartsWith(e.name, "."))
                   kept     == SelectSeq(shown, LAMBDA e : ~IsExcludedName(e.name))
                   filtered == StableSort(kept, "entries")
               IN treeLines(f, dirPath, prefix, depth, maxDepth, filtered,
                            [text |-> "", log |-> <<ev>>])

\* the for loop of buildTree over the entries still to render
treeLines(f, dirPath, prefix, depth, maxDepth, rest, acc) ==
  IF Len(rest) = 0 THEN acc
  ELSE LET entry  == Head(rest)
           isLast == Len(rest) = 1
           line   == prefix \o connectorOf(isLast) \o entry.name
       IN IF entry.isDir
          THEN LET sub == buildTree(f, pathJoin(dirPath, entry.name),
                                    prefix \o extensionOf(isLast), depth + 1, maxDepth)
               IN treeLines(f, dirPath, prefix, depth, maxDepth, Tail(rest),
                            [text |-> acc.text \o line \o "/\n" \o sub.text,
                             log  |-> acc.log \o sub.log])
          ELSE treeLines(f, dirPath, prefix, depth, maxDepth, Tail(rest),
                         [text |-> acc.text \o line \o "\n", log |-> acc.log])

\* get_project_structure; max_depth is <<>> (absent) or <<n>>
get_project_structure(f, max_depth) ==
  LET maxDepth    == IF max_depth = <<>> \/ max_depth[1] = 0 THEN 3 ELSE max_depth[1]
      tree        == buildTree(f, PROJECT_ROOT, "", 0, maxDepth)
      projectName == pathBasename(PROJECT_ROOT)
  IN Out(f, tree.log, Success(projectName \o "/\n" \o tree.text))


(***************************************************************************)
(* get_project_structure on projects whose root holds up to MaxRoot of six *)
(* entries, in any readdir order: files, a hidden file, a dependency       *)
(* directory, a source directory four levels deep, and a storage directory *)
(* with a framework directory and a directory that cannot be read          *)
(***************************************************************************)

TreeNodes ==
     (In("a.txt")                   :> File("a"))
  @@ (In("b.txt")                   :> File("b"))
  @@ (In(".env")                    :> File("KEY=1"))
  @@ (In("vendor")                  :> Dir(<<"v.php">>))
  @@ (In("vendor/v.php")            :> File("v"))
  @@ (In("src")                     :> Dir(<<"z.php", "lib", ".keep", "m.php">>))
  @@ (In("src/z.php")               :> File("z"))
  @@ (In("src/m.php")               :> File("m"))
  @@ (In("src/.keep")               :> File(""))
  @@ (In("src/lib")                 :> Dir(<<"deep">>))
  @@ (In("src/lib/deep")            :> Dir(<<"d.php">>))
  @@ (In("src/lib/deep/d.php")      :> File("d"))
  @@ (In("storage")                 :> Dir(<<"framework", "app">>))
  @@ (In("storage/framework")       :> Dir(<<"x.php">>))
  @@ (In("storage/framework/x.php") :> File("x"))
  @@ (In("storage/app")             :> Locked(Dir(<<"s.txt">>)))
  @@ (In("storage/app/s.txt")       :> File("s"))

RootNames == {"a.txt", "b.txt", ".env", "vendor", "src", "storage"}

MaxRoot == 3

\* the entries of the root as readdir returns them: no name twice
RootListings ==
  {es \in UNION {[1..n -> RootNames] : n \in 0..MaxRoot} :
     \A i, j \in 1..Len(es) : i # j => es[i] # es[j]}

\* the first segment of a path below PROJECT_ROOT
TopOf(p) == Split(pathRelative(PROJECT_ROOT, p), "/")[1]

TreeProject(rootEntries) ==
  [p \in {PROJECT_ROOT} \cup {q \in DOMAIN TreeNodes :
                                \E i \in 1..Len(rootEntries) : rootEntries[i] = TopOf(q)} |->
     IF p = PROJECT_ROOT THEN Dir(rootEntries) ELSE TreeNodes[p]]

InitTree ==
  /\ fs \in {Outside @@ TreeProject(es) : es \in RootListings}
  /\ req = Idle
  /\ log = <<>>
  /\ reply = Success("")
  /\ nops = 0
  /\ NoScan

DepthArgs == {<<>>, <<0>>, <<1>>, <<2>>, <<4>>, <<-1>>}

\* a server that has served no more than MaxTrees - 1 requests serves one
MaxTrees == 1

Call_get_project_structure ==
  \E d \in DepthArgs :
    LET a == [max_depth |-> d]
    IN /\ nops < MaxTrees
       /\ Serve("get_project_structure", a, get_project_structure(fs, d))

NextTree == Call_get_project_structure

SpecTree == InitTree /\ [][NextTree]_vars

(***************************************************************************)
(* Properties of buildTree                                                 *)
(***************************************************************************)

TreeReported == req.name = "get_project_structure" /\ nops > 0 /\ ~reply.isError

\* the depth limit in force: 3 when max_depth is absent or 0
DepthLimit ==
  IF req.args.max_depth = <<>> \/ req.args.max_depth = <<0>> THEN 3 ELSE req.args.max_depth[1]

EntriesBelowRoot == {p \in DOMAIN fs : StartsWith(p, PROJECT_ROOT \o "/")}

EntryDepth(p) == Len(Split(pathRelative(PROJECT_ROOT, p), "/")) - 1

\* the directories an entry lies in, below PROJECT_ROOT
DirsAbove(p) == {q \in EntriesBelowRoot : StartsWith(p, q \o "/")}

IsHidden(p) == StartsWith(pathBasename(p), ".")

\* excluded: the path relative to the root contains a fragment of the
\* exclusion set
PathExcluded(p) ==
  \E i \in 1..Len(EXCLUDE_DIRS) : Includes(pathRelative(PROJECT_ROOT, p), EXCLUDE_DIRS[i])

\* excluded by name: the entry or a directory above it has exactly the name of
\* a member of the exclusion set
NameExcluded(p) ==
  \E q \in DirsAbove(p) \cup {p}, i \in 1..Len(EXCLUDE_DIRS) : pathBasename(q) = EXCLUDE_DIRS[i]

\* the entries buildTree can list: no directory above is hidden or unreadable
Listed(p) ==
  \A q \in DirsAbove(p) : ~IsHidden(q) /\ fs[q].kind = "dir" /\ fs[q].readable

EntriesToRender ==
  {p \in EntriesBelowRoot :
     EntryDepth(p) < DepthLimit /\ ~IsHidden(p) /\ ~PathExcluded(p) /\ Listed(p)}

EntriesToRenderByName ==
  {p \in EntriesBelowRoot :
     EntryDepth(p) < DepthLimit /\ ~IsHidden(p) /\ ~NameExcluded(p) /\ Listed(p)}

\* the lines of the tree in the reply: after the line of the project name
RenderedLines ==
  LET ls == Split(reply.body, "\n") IN SubSeq(ls, 2, Len(ls) - 1)

\* the text of a line after its connector
LabelOfLine(l) ==
  LET spaces == {i \in 1..Len(l) : CharAt(l, i) = " "}
      last   == IF spaces = {} THEN 0 ELSE CHOOSE i \in spaces : \A j \in spaces : j <= i
  IN SubSeq(l, last + 1, Len(l))

ConnectorOfLine(l) ==
  LET n == Len(l) - Len(LabelOfLine(l)) IN SubSeq(l, n - 3, n)

LabelOfEntry(p) == pathBasename(p) \o (IF fs[p].kind = "dir" THEN "/" ELSE "")

\* the lines of ls that render an entry: its label at the indentation of its
\* depth
LinesOfEntry(ls, p) ==
  {k \in 1..Len(ls) :
     /\ LabelOfLine(ls[k]) = LabelOfEntry(p)
     /\ Len(ls[k]) = 4 * (EntryDepth(p) + 1) + Len(LabelOfEntry(p))}

\* the names of TreeNodes in alphabetical order, by hand
Alphabetical ==
  <<"a.txt", "app", "b.txt", "d.php", "deep", "framework", "lib", "m.php", "s.txt", "src",
    "storage", "v.php", "vendor", "x.php", "z.php">>

AlphaRank(name) == CHOOSE i \in 1..Len(Alphabetical) : Alphabetical[i] = name

Siblings(p, q) == p # q /\ pathDirname(p) = pathDirname(q)

\* p is to come before its sibling q: directories first, then alphabetical
ComesFirst(p, q) ==
  IF (fs[p].kind = "dir") # (fs[q].kind = "dir") THEN fs[p].kind = "dir"
  ELSE AlphaRank(pathBasename(p)) < AlphaRank(pathBasename(q))

\* the tree renders exactly the entries of E, in order, with the connectors
RendersExactly(E) ==
  \A ls \in {RenderedLines} :
    \A at \in {[p \in E |-> LinesOfEntry(ls, p)]} :
      /\ Len(ls) = Cardinality(E)
      /\ \A p \in E : Cardinality(at[p]) = 1
      /\ \A line \in {[p \in E |-> CHOOSE k \in at[p] : TRUE]} :
           /\ \A p, q \in E : Siblings(p, q) /\ ComesFirst(p, q) => line[p] < line[q]
           /\ \A p \in E :
                ConnectorOfLine(ls[line[p]]) =
                  IF \E q \in E : Siblings(p, q) /\ line[q] > line[p]
                  THEN TeeConnector ELSE LastConnector

\* C17: buildTree emits exactly one line for each entry that is neither hidden
\* nor excluded and lies at a depth below maxDepth, and none for deeper
\* entries; at each level directories come before files and then the order is
\* alphabetical; the last sibling has the last connector and every other
\* sibling the other one.
C17_TreeLines == TreeReported => RendersExactly(EntriesToRender)

\* the same with exclusion by exact name, as buildTree filters
C17_TreeLinesByName == TreeReported => RendersExactly(EntriesToRenderByName)

\* a.txt and b.txt with maxDepth 1, listed b.txt first: two lines
C17_Witness ==
  /\ TreeReported
  /\ fs[PROJECT_ROOT].entries = <<"b.txt", "a.txt">>
  /\ req.args.max_depth = <<1>>
  /\ RenderedLines = <<TeeConnector \o "a.txt", LastConnector \o "b.txt">>

\* the storage directory rendered to depth 3: framework/ and x.php have lines
C17_FrameworkRendered ==
  /\ TreeReported
  /\ fs[PROJECT_ROOT].entries = <<"storage">>
  /\ req.args.max_depth = <<>>
  /\ RenderedLines = <<LastConnector \o "storage/",
                       LastExtension \o TeeConnector \o "app/",
                       LastExtension \o LastConnector \o "framework/",
                       LastExtension \o LastExtension \o LastConnector \o "x.php">>


(***************************************************************************)
(* read_file with a line range, on files of MaxFileLines, 3 and 1 lines;   *)
(* line k of each file is the text Lk                                      *)
(***************************************************************************)

MaxFileLines == 10

LinesUpTo(n) == Join([k \in 1..n |-> "L" \o ToString(k)], "\n")

RangeProject ==
     (PROJECT_ROOT    :> Dir(<<"long.txt", "three.txt", "one.txt">>))
  @@ (In("long.txt")  :> File(LinesUpTo(MaxFileLines)))
  @@ (In("three.txt") :> File(LinesUpTo(3)))
  @@ (In("one.txt")   :> File(LinesUpTo(1)))

InitRange ==
  /\ fs = Outside @@ RangeProject
  /\ req = Idle
  /\ log = <<>>
  /\ reply = Success("")
  /\ nops = 0
  /\ NoScan

\* start_line and end_line: absent, or a number from below the first line to
\* beyond the last
StartArgs == {<<>>} \cup {<<k>> : k \in {-2, 0, 1, 2, 5, MaxFileLines, MaxFileLines + 2}}
EndArgs   == {<<>>} \cup {<<k>> : k \in {-3, -1, 0, 1, 3, 5, MaxFileLines, MaxFileLines + 2}}

\* a server that has served no more than MaxRangeReads - 1 requests serves one
MaxRangeReads == 1

Call_read_file_range ==
  \E p \in {"long.txt", "three.txt", "one.txt"}, s \in StartArgs, e \in EndArgs :
    LET a == [path |-> p, start_line |-> s, end_line |-> e]
    IN /\ nops < MaxRangeReads
       /\ Serve("read_file", a, read_file(fs, a))

NextRange == Call_read_file_range

SpecRange == InitRange /\ [][NextRange]_vars

(***************************************************************************)
(* Properties of read_file with a range                                    *)
(***************************************************************************)

\* the number of lines of each file, by hand
LinesInFile == ("long.txt" :> MaxFileLines) @@ ("three.txt" :> 3) @@ ("one.txt" :> 1)

RangeRead ==
  /\ req.name = "read_file"
  /\ nops > 0
  /\ ~reply.isError
  /\ req.args.start_line # <<>>

\* the end line asked for: the last line when absent or -1
EndAsked ==
  IF req.args.end_line = <<>> \/ req.args.end_line = <<-1>>
  THEN LinesInFile[req.args.path] ELSE req.args.end_line[1]

ClampedStart == IF req.args.start_line[1] < 1 THEN 1 ELSE req.args.start_line[1]

ClampedEnd ==
  IF EndAsked > LinesInFile[req.args.path] THEN LinesInFile[req.args.path] ELSE EndAsked

\* line k as read_file shows it: the number right-justified in four columns
Numbered(k) ==
  (IF k < 10 THEN "   " ELSE "  ") \o ToString(k) \o " | L" \o ToString(k)

\* the reply for the lines from..to of a file of n lines
RangeText(from, to, n) ==
  "File: " \o req.args.path \o " (lines " \o ToString(from) \o "-" \o ToString(to)
  \o " of " \o ToString(n) \o ")\n" \o Rule60 \o "\n"
  \o Join([i \in 1..(IF to >= from THEN to - from + 1 ELSE 0) |-> Numbered(from + i - 1)], "\n")

\* C18: for a file of n lines and any start_line and end_line asked for,
\* read_file clamps the start to at least 1 and the end to at most n (-1
\* meaning n), returns exactly the lines from the clamped start through the
\* clamped end, each with its true line number, and the header states that
\* range and n.
C18_RangeClamped ==
  RangeRead => reply.body = RangeText(ClampedStart, ClampedEnd, LinesInFile[req.args.path])

\* the same for the end lines from 1 up, -1 and none given
C18_RangeClampedFromOne ==
  RangeRead /\ EndAsked >= 1 =>
    reply.body = RangeText(ClampedStart, ClampedEnd, LinesInFile[req.args.path])

\* lines 5 to -1 of the 10-line file
C18_Witness ==
  /\ RangeRead
  /\ req.args = [path |-> "long.txt", start_line |-> <<5>>, end_line |-> <<-1>>]
  /\ StartsWith(reply.body, "File: long.txt (lines 5-10 of 10)\n")
  /\ EndsWith(reply.body, "\n   5 | L5\n   6 | L6\n   7 | L7\n   8 | L8\n   9 | L9\n  10 | L10")

\* lines 5 to -3 of the 10-line file: lines 5, 6 and 7 under a header of 5--3
C18_NegativeEnd ==
  /\ RangeRead
  /\ req.args = [path |-> "long.txt", start_line |-> <<5>>, end_line |-> <<-3>>]
  /\ StartsWith(reply.body, "File: long.txt (lines 5--3 of 10)\n")
  /\ EndsWith(reply.body, "\n   5 | L5\n   6 | L6\n   7 | L7")


(***************************************************************************)
(* Properties of create_file                                               *)
(***************************************************************************)

\* a create_file request whose path the sandbox accepted is served
CreateStep ==
  /\ nops' = nops + 1
  /\ req'.name = "create_file"
  /\ resolvePath(req'.args.path).ok

CreateTarget == resolvePath(req'.args.path).val

\* something exists at the target before the request
TargetExists == CreateTarget \in DOMAIN fs /\ fs[CreateTarget].kind # "broken"

\* the directories above a path
RECURSIVE DirsUpTo(_)
DirsUpTo(p) == IF p = "/" \/ p = "" THEN {} ELSE {pathDirname(p)} \cup DirsUpTo(pathDirname(p))

OpsLogged(lg, op) == {k \in 1..Len(lg) : lg[k].op = op}

\* C19: create_file on a path where a file already exists fails with an
\* already-exists error that names write_file, creates no directory, writes
\* nothing and leaves the file system as it was; on a path where nothing
\* exists it creates the missing parent directories and then the file with the
\* given content, and touches nothing else.
C19_CreateOnlyNew ==
  [][CreateStep =>
       IF TargetExists
       THEN /\ reply' = Failure("File already exists: " \o req'.args.path
                                \o ". Use write_file to overwrite.")
            /\ OpsLogged(log', "mkdir") = {}
            /\ OpsLogged(log', "writeFile") = {}
            /\ fs' = fs
       ELSE /\ ~reply'.isError
            /\ CreateTarget \in DOMAIN fs'
            /\ fs'[CreateTarget].kind = "file"
            /\ fs'[CreateTarget].content = req'.args.content
            /\ \A d \in DirsUpTo(CreateTarget) : d \in DOMAIN fs' /\ fs'[d].kind = "dir"
            /\ \A d \in DirsUpTo(CreateTarget) \cup {CreateTarget} :
                 d # "/" => \E i \in 1..Len(fs'[pathDirname(d)].entries) :
                              fs'[pathDirname(d)].entries[i] = pathBasename(d)
            /\ \A q \in DOMAIN fs : q \notin DirsUpTo(CreateTarget) => fs'[q] = fs[q]
            /\ \A k \in OpsLogged(log', "mkdir"), w \in OpsLogged(log', "writeFile") : k < w
            /\ OpsLogged(log', "writeFile") # {}]_vars

\* new/n.php was created together with its directory, and a second create_file
\* on it was refused
C19_Witness ==
  /\ req.name = "create_file"
  /\ req.args.path = "new/n.php"
  /\ nops = 2
  /\ reply.isError
  /\ StartsWith(reply.body, "Error: File already exists: new/n.php")
  /\ fs[In("new")].kind = "dir"
  /\ fs[In("new/n.php")] = File("<?php\n")


(***************************************************************************)
(* The dispatch boundary.  request.params.arguments is Undefined when the  *)
(* caller sent none, and otherwise a record that may lack fields; a read   *)
(* of a missing field gives undefined.  Every throw inside the try ends in *)
(* the catch, which is Failure.                                            *)
(***************************************************************************)

Undefined == [undefined |-> TRUE]

Has(a, field) == field \in DOMAIN a

\* an optional argument: <<>> when undefined
Opt(a, field) == IF Has(a, field) THEN <<a[field]>> ELSE <<>>

\* args.field || fallback
OrElse(a, field, fallback) == IF Has(a, field) THEN a[field] ELSE fallback

\* the messages of the TypeErrors thrown on undefined
ReadOfUndefined(prop) == "Cannot read properties of undefined (reading '" \o prop \o "')"
PathsArgType == "The \"paths[1]\" argument must be of type string. Received undefined"
PathArgType  == "The \"path\" argument must be of type string. Received undefined"
DataArgType  ==
  "The \"data\" argument must be of type string or an instance of Buffer, TypedArray, or DataView. Received undefined"
NotIterable(what) == what \o " is not iterable"

LaravelTools ==
  {"read_file", "read_multiple_files", "write_file", "create_file", "delete_file",
   "list_files", "search_code", "search_and_replace", "get_project_structure",
   "analyze_php_file", "find_class_usages"}

\* the first property each branch reads from args
FirstRead ==
  [read_file |-> "path", read_multiple_files |-> "paths", write_file |-> "path",
   create_file |-> "path", delete_file |-> "path", list_files |-> "directory",
   search_code |-> "file_extensions", search_and_replace |-> "path",
   get_project_structure |-> "max_depth", analyze_php_file |-> "path",
   find_class_usages |-> "class_name"]

\* write_file and create_file called without content: fs.writeFile throws
\* after the calls before it were made
write_file_nocontent(f, a) ==
  LET r  == resolvePath(a.path)
      e1 == ResolveEv(a.path, r)
  IN IF ~r.ok THEN Out(f, <<e1>>, Failure(r.val))
     ELSE LET acc == fsAccess(f, r.val)
              e2  == Ev("access", a.path, r.val)
          IN Out(f, <<e1, e2>>, Failure(IF acc.ok THEN DataArgType ELSE acc.val))

create_file_nocontent(f, a) ==
  LET r  == resolvePath(a.path)
      e1 == ResolveEv(a.path, r)
  IN IF ~r.ok THEN Out(f, <<e1>>, Failure(r.val))
     ELSE
       LET acc == fsAccess(f, r.val)
           e2  == Ev("access", a.path, r.val)
       IN IF acc.ok
          THEN Out(f, <<e1, e2>>,
                   Failure("File already exists: " \o a.path
                           \o ". Use write_file to overwrite."))
          ELSE LET m  == fsMkdirP(f, pathDirname(r.val))
                   e3 == Ev("mkdir", a.path, pathDirname(r.val))
               IN IF ~m.ok THEN Out(f, <<e1, e2, e3>>, Failure(m.val))
                  ELSE Out(m.val, <<e1, e2, e3>>, Failure(DataArgType))

\* the branches of the Laravel handler that finish in one step, and every
\* branch up to its first throw
CallTool(f, name, a) ==
  IF name \notin LaravelTools THEN Out(f, <<>>, Failure("Unknown tool: " \o name))
  ELSE IF a = Undefined THEN Out(f, <<>>, Failure(ReadOfUndefined(FirstRead[name])))
  ELSE IF name = "get_project_structure" THEN get_project_structure(f, Opt(a, "max_depth"))
  ELSE IF name = "list_files"
    THEN list_files(f, [directory |-> OrElse(a, "directory", ""),
                        recursive |-> OrElse(a, "recursive", FALSE),
                        pattern   |-> OrElse(a, "pattern", "")])
  ELSE IF name = "read_multiple_files"
    THEN IF Has(a, "paths") THEN read_multiple_files(f, a)
         ELSE Out(f, <<>>, Failure(ReadOfUndefined("map")))
  ELSE IF name = "find_class_usages"
    THEN Out(f, <<>>, Failure(ReadOfUndefined("includes")))
  ELSE IF name = "search_code"
    THEN Out(f, getFilesRecursively(f, PROJECT_ROOT,
                                    OrElse(a, "file_extensions", DEFAULT_EXTENSIONS),
                                    NoArg).log,
             Failure(ReadOfUndefined("replace")))
  ELSE IF ~Has(a, "path") THEN Out(f, <<>>, Failure(PathsArgType))
  ELSE IF name = "read_file"
    THEN read_file(f, [path |-> a.path, start_line |-> Opt(a, "start_line"),
                       end_line |-> Opt(a, "end_line")])
  ELSE IF name = "write_file"
    THEN IF Has(a, "content") THEN write_file(f, a) ELSE write_file_nocontent(f, a)
  ELSE IF name = "create_file"
    THEN IF Has(a, "content") THEN create_file(f, a) ELSE create_file_nocontent(f, a)
  ELSE IF name = "delete_file" THEN delete_file(f, a)
  ELSE IF name = "search_and_replace"
    THEN search_and_replace(f, [path    |-> a.path,
                                search  |-> OrElse(a, "search", "undefined"),
                                replace |-> OrElse(a, "replace", "undefined")])
  ELSE analyze_php_file(f, a)

(***************************************************************************)
(* radius-directory: searchInDirectory, getDirectoryTree and the handler   *)
(***************************************************************************)

SearchSkipped == {"node_modules", ".next", ".git", "dist", "build"}
TreeSkipped   == {"node_modules", ".next", ".git"}

\* String.prototype.toLowerCase
RECURSIVE toLowerCase(_)
toLowerCase(s) == IF Len(s) = 0 THEN "" ELSE Canon(CharAt(s, 1)) \o toLowerCase(Tail(s))

\* the matches of one file: query is <<>> when undefined, and then
\* query.toLowerCase() throws into the catch that skips the file
fileMatches(content, query) ==
  IF query = <<>> THEN <<>>
  ELSE LET lines == Split(content, "\n")
           hit(i) == Includes(toLowerCase(lines[i]), toLowerCase(query[1]))
           at     == {i \in 1..Len(lines) : hit(i)}
       IN [k \in 1..Cardinality(at) |->
             LET i == CHOOSE i \in at : Cardinality({j \in at : j < i}) = k - 1
             IN [line |-> i, content |-> Trim(lines[i])]]

RECURSIVE searchInDirectory(_, _, _, _)
RECURSIVE searchEntries(_, _, _, _, _)
searchInDirectory(f, dir, query, fileExtensions) ==
  LET rd == fsReaddir(f, dir)
      ev == Ev("readdir", NoArg, dir)
  IN IF ~rd.ok THEN [results |-> <<>>, log |-> <<ev>>]
     ELSE LET r == searchEntries(f, dir, rd.val, query, fileExtensions)
          IN [results |-> r.results, log |-> <<ev>> \o r.log]

searchEntries(f, dir, entries, query, fileExtensions) ==
  IF Len(entries) = 0 THEN [results |-> <<>>, log |-> <<>>]
  ELSE
    LET entry    == Head(entries)
        fullPath == pathJoin(dir, entry.name)
        rest     == searchEntries(f, dir, Tail(entries), query, fileExtensions)
    IN IF entry.name \in SearchSkipped THEN rest
       ELSE IF entry.isDir
         THEN LET sub == searchInDirectory(f, fullPath, query, fileExtensions)
              IN [results |-> sub.results \o rest.results, log |-> sub.log \o rest.log]
       ELSE IF /\ Len(fileExtensions) > 0
               /\ \A i \in 1..Len(fileExtensions) : fileExtensions[i] # pathExtname(entry.name)
         THEN rest
       ELSE
         LET c  == fsReadFile(f, fullPath)
             ev == Ev("readFile", NoArg, fullPath)
             ms == IF c.ok THEN fileMatches(c.val, query) ELSE <<>>
         IN [results |-> (IF Len(ms) = 0 THEN <<>>
                          ELSE <<[file       |-> pathRelative(RADIUS_ROOT, fullPath),
                                  matchCount |-> Len(ms),
                                  matches    |-> Slice(ms, 0, 3)]>>) \o rest.results,
             log     |-> <<ev>> \o rest.log]

\* getDirectoryTree: tree is <<>> for null and <<t>> for a tree
RECURSIVE getDirectoryTree(_, _, _, _)
RECURSIVE treeChildren(_, _, _, _, _)
getDirectoryTree(f, dir, maxDepth, currentDepth) ==
  IF currentDepth >= maxDepth THEN [tree |-> <<>>, log |-> <<>>]
  ELSE LET rd == fsReaddir(f, dir)
           ev == Ev("readdir", NoArg, dir)
           ch == IF rd.ok THEN treeChildren(f, dir, rd.val, maxDepth, currentDepth)
                 ELSE [children |-> <<>>, log |-> <<>>]
       IN [tree |-> <<[name |-> pathBasename(dir), type |-> "directory",
                       children |-> ch.children]>>,
           log  |-> <<ev>> \o ch.log]

treeChildren(f, dir, entries, maxDepth, currentDepth) ==
  IF Len(entries) = 0 THEN [children |-> <<>>, log |-> <<>>]
  ELSE
    LET entry == Head(entries)
        rest  == treeChildren(f, dir, Tail(entries), maxDepth, currentDepth)
    IN IF currentDepth = 0 /\ entry.name \in TreeSkipped THEN rest
       ELSE IF entry.isDir
         THEN LET sub == getDirectoryTree(f, pathJoin(dir, entry.name), maxDepth,
                                          currentDepth + 1)
              IN [children |-> sub.tree \o rest.children, log |-> sub.log \o rest.log]
       ELSE [children |-> <<[name |-> entry.name, type |-> "file"]>> \o rest.children,
             log      |-> rest.log]

radius_search_code(f, a) ==
  LET r == searchInDirectory(f, RADIUS_ROOT, Opt(a, "query"), OrElse(a, "file_extensions", <<>>))
  IN Out(f, r.log, Success([found |-> Len(r.results), results |-> r.results]))

radius_get_project_structure(f, a) ==
  LET maxDepth == IF ~Has(a, "max_depth") \/ a.max_depth = 0 THEN 3 ELSE a.max_depth
      t == getDirectoryTree(f, RADIUS_ROOT, maxDepth, 0)
  IN Out(f, t.log, Success(t.tree))

RadiusToolNames ==
  {"read_file", "list_files", "write_file", "search_code", "get_project_structure",
   "read_component_context", "analyze_imports", "read_multiple_files"}

RadiusFirstRead ==
  [read_file |-> "path", list_files |-> "directory", write_file |-> "path",
   search_code |-> "query", get_project_structure |-> "max_depth",
   read_component_context |-> "component_path", analyze_imports |-> "file_path",
   read_multiple_files |-> "paths"]

\* write_file of radius-directory called without content: the directory is
\* made and fs.writeFile throws
radius_write_file_nocontent(f, a) ==
  LET filePath == pathJoin(RADIUS_ROOT, a.path)
      m  == fsMkdirP(f, pathDirname(filePath))
      e1 == Ev("mkdir", a.path, pathDirname(filePath))
  IN IF ~m.ok THEN Out(f, <<e1>>, Failure(m.val))
     ELSE Out(m.val, <<e1>>, Failure(DataArgType))

\* the handler of radius-directory
RadiusCallTool(f, name, a) ==
  IF name \notin RadiusToolNames THEN Out(f, <<>>, Failure("Unknown tool: " \o name))
  ELSE IF a = Undefined THEN Out(f, <<>>, Failure(ReadOfUndefined(RadiusFirstRead[name])))
  ELSE IF name = "search_code" THEN radius_search_code(f, a)
  ELSE IF name = "get_project_structure" THEN radius_get_project_structure(f, a)
  ELSE IF name = "read_multiple_files"
    THEN IF Has(a, "paths") THEN radius_read_multiple_files(f, a)
         ELSE Out(f, <<>>, Failure(NotIterable("args.paths")))
  ELSE IF ~Has(a, RadiusFirstRead[name]) THEN Out(f, <<>>, Failure(PathArgType))
  ELSE IF name = "read_file" THEN plain_read_file(RADIUS_ROOT, f, a)
  ELSE IF name = "list_files" THEN plain_list_files(RADIUS_ROOT, f, a)
  ELSE IF name = "write_file"
    THEN IF Has(a, "content") THEN radius_write_file(f, a)
         ELSE radius_write_file_nocontent(f, a)
  ELSE IF name = "read_component_context" THEN read_component_context(f, a)
  ELSE analyze_imports(f, a)


(***************************************************************************)
(* Calls of every tool of the Laravel server and of radius-directory, with *)
(* no arguments, with an empty argument object, with arguments that lack a *)
(* field and with complete ones, and calls of tools that do not exist      *)
(***************************************************************************)

NoFields == [x \in {} |-> x]

UnknownNames == {"no_such_tool", ""}

\* the argument objects sent with a Laravel tool, besides none and {}
LaravelArgs(name) ==
  IF name = "read_file"
    THEN {[path |-> "a.php"], [path |-> "nope.php"], [path |-> "../../etc/passwd"],
          [path |-> "a.php", start_line |-> 2, end_line |-> -1], [start_line |-> 1]}
  ELSE IF name = "read_multiple_files" THEN {[paths |-> <<"a.php", "nope.php">>]}
  ELSE IF name \in {"write_file", "create_file"}
    THEN {[path |-> "a.php", content |-> "x"], [path |-> "new/n.php", content |-> "x"],
          [path |-> "a.php"], [path |-> "new/n.php"], [path |-> "/etc/passwd"],
          [content |-> "x"]}
  ELSE IF name = "delete_file" THEN {[path |-> "a.php"], [path |-> "nope.php"]}
  ELSE IF name = "list_files"
    THEN {[directory |-> "app", recursive |-> TRUE, pattern |-> ".php"],
          [directory |-> "nodir"], [recursive |-> TRUE]}
  ELSE IF name = "search_code" THEN {[case_sensitive |-> TRUE], [file_extensions |-> <<".txt">>]}
  ELSE IF name = "search_and_replace"
    THEN {[path |-> "a.php", search |-> "foo", replace |-> "bar"], [path |-> "a.php"],
          [search |-> "foo"], [path |-> "../app-old/s.php", search |-> "foo"]}
  ELSE IF name = "get_project_structure" THEN {[max_depth |-> 1]}
  ELSE IF name = "analyze_php_file" THEN {[path |-> "a.php"], [path |-> "nope.php"]}
  ELSE IF name = "find_class_usages" THEN {[other |-> "User"]}
  ELSE {[path |-> "a.php"]}

\* a server that has served no more than MaxCalls - 1 requests serves one
MaxCalls == 1

Call_tool ==
  \E name \in LaravelTools \cup UnknownNames :
    \E a \in {Undefined, NoFields} \cup LaravelArgs(name) :
      /\ nops < MaxCalls
      /\ name = "search_code" => a = Undefined \/ ~Has(a, "query")
      /\ name = "find_class_usages" => a = Undefined \/ ~Has(a, "class_name")
      /\ Serve(name, a, CallTool(fs, name, a))

\* search_code and find_class_usages with their argument: the file reads run
\* one callback at a time
Call_search_code_dispatch ==
  /\ nops < MaxCalls
  /\ \E q \in {"foo", "("} : search_code_start(q, FALSE, <<>>)

Call_find_class_usages_dispatch ==
  /\ nops < MaxCalls
  /\ \E c \in {"User", "App\\Models\\User"} : find_class_usages_start(c)

RadiusArgs(name) ==
  IF name = "read_file"
    THEN {[path |-> "Button.tsx"], [path |-> "missing.ts"], [path |-> "app"]}
  ELSE IF name = "list_files" THEN {[directory |-> "app"], [directory |-> "missing"]}
  ELSE IF name = "write_file"
    THEN {[path |-> "new/x.ts", content |-> "x"], [path |-> "new/x.ts"], [content |-> "x"]}
  ELSE IF name = "search_code"
    THEN {[query |-> "EXPORT"], [query |-> "a", file_extensions |-> <<".css">>]}
  ELSE IF name = "get_project_structure" THEN {[max_depth |-> 1], [max_depth |-> 0]}
  ELSE IF name = "read_component_context"
    THEN {[component_path |-> "Button.tsx"], [component_path |-> "missing.ts"]}
  ELSE IF name = "analyze_imports"
    THEN {[file_path |-> "app/page.tsx"], [file_path |-> "missing.ts"]}
  ELSE IF name = "read_multiple_files" THEN {[paths |-> <<"Button.tsx", "missing.ts">>]}
  ELSE {[path |-> "Button.tsx"]}

Call_radius_tool ==
  \E name \in RadiusToolNames \cup UnknownNames :
    \E a \in {Undefined, NoFields} \cup RadiusArgs(name) :
      /\ nops < MaxCalls
      /\ Serve("radius-directory/" \o name, a, RadiusCallTool(fs, name, a))

NextDispatch ==
  \/ Call_tool
  \/ Call_search_code_dispatch
  \/ ScanComplete
  \/ search_code_finish
  \/ Call_find_class_usages_dispatch
  \/ UsageScanComplete
  \/ find_class_usages_finish
  \/ Call_radius_tool

SpecDispatch == Init /\ [][NextDispatch]_vars

(***************************************************************************)
(* Properties of the dispatch boundary                                     *)
(***************************************************************************)

\* the handler has returned
Returned == pc = "idle" /\ nops > 0

RadiusPrefix == "radius-directory/"

ToolName ==
  IF StartsWith(req.name, RadiusPrefix)
  THEN SubSeq(req.name, Len(RadiusPrefix) + 1, Len(req.name)) ELSE req.name

KnownTool ==
  IF StartsWith(req.name, RadiusPrefix) THEN ToolName \in RadiusToolNames
  ELSE req.name \in LaravelTools

\* the Laravel tools that take one path
OnePathTools ==
  {"read_file", "write_file", "create_file", "delete_file", "search_and_replace",
   "analyze_php_file"}

\* C20: every tool call returns a success payload or the failure payload,
\* isError with the text Error: and the message; a fault raised while serving
\* the call (an unknown tool name, a missing file, a path the sandbox rejects,
\* missing arguments) is caught and comes back as that payload.
C20_UniformPayload ==
  Returned =>
    /\ DOMAIN reply = {"isError", "body"}
    /\ reply.isError \in BOOLEAN
    /\ reply.isError => StartsWith(reply.body, "Error: ") /\ Len(reply.body) > Len("Error: ")
    /\ ~KnownTool => reply = [isError |-> TRUE, body |-> "Error: Unknown tool: " \o ToolName]
    /\ KnownTool /\ req.args = Undefined => reply.isError
    /\ (/\ req.name \in OnePathTools
        /\ req.args # Undefined
        /\ "path" \in DOMAIN req.args)
       => /\ req.args.path \in {"../../etc/passwd", "/etc/passwd"} =>
               reply = [isError |-> TRUE, body |-> "Error: " \o AccessDenied]
          /\ req.args.path = "nope.php" /\ req.name # "create_file" => reply.isError
    /\ (/\ req.name \in OnePathTools \ {"search_and_replace"}
        /\ req.args # Undefined
        /\ "path" \notin DOMAIN req.args) => reply.isError
    /\ req.name = "radius-directory/read_file" /\ req.args = [path |-> "missing.ts"] =>
         reply.isError

\* a tool that does not exist was called without arguments
C20_Witness ==
  /\ Returned
  /\ req = [name |-> "no_such_tool", args |-> Undefined]
  /\ reply = [isError |-> TRUE, body |-> "Error: Unknown tool: no_such_tool"]


(***************************************************************************)
(* Properties of the operations over many files when one item is bad       *)
(***************************************************************************)

\* the directory a list_files request names, resolved
ListedDir == resolvePath(IF req.args.directory = "" THEN "." ELSE req.args.directory)

\* list_files was served on a directory that can be read
ListingServed ==
  /\ req.name = "list_files"
  /\ nops > 0
  /\ ListedDir.ok
  /\ fsReaddir(fs, ListedDir.val).ok

OneLevel == ~(req.args.recursive /\ req.args.pattern # "")

\* the entries of the listed directory that a one-level listing is to show:
\* not hidden, not excluded by name, with the pattern as suffix
EntriesToList ==
  {n \in {fs[ListedDir.val].entries[i] : i \in 1..Len(fs[ListedDir.val].entries)} :
     /\ ~StartsWith(n, ".")
     /\ \A i \in 1..Len(EXCLUDE_DIRS) : EXCLUDE_DIRS[i] # n
     /\ (req.args.pattern = "" \/ EndsWith(n, req.args.pattern))}

\* an entry that can be inspected: it is not a link to nothing
Inspectable(n) == fs[pathJoin(ListedDir.val, n)].kind # "broken"

BulkReadServed == req.name = "read_multiple_files" /\ nops > 0

\* C21: no operation over many files fails as a whole because one file or
\* subdirectory cannot be read or inspected: it returns a success payload that
\* covers every other item and leaves the bad item out.  Here: list_files on
\* a readable directory, and read_multiple_files.
C21_BulkNeverFails ==
  /\ ListingServed =>
       /\ ~reply.isError
       /\ OneLevel =>
            {reply.body.items[i].name : i \in 1..Len(reply.body.items)}
              = {n \in EntriesToList : Inspectable(n)}
  /\ BulkReadServed =>
       /\ ~reply.isError
       /\ DOMAIN reply.body = {req.args.paths[i] : i \in 1..Len(req.args.paths)}

\* the same without the one-level listing of a directory that holds an entry
\* which cannot be inspected
C21_BulkNeverFailsButStat ==
  /\ ListingServed /\ (OneLevel => \A n \in EntriesToList : Inspectable(n)) =>
       /\ ~reply.isError
       /\ OneLevel =>
            {reply.body.items[i].name : i \in 1..Len(reply.body.items)} = EntriesToList
  /\ BulkReadServed =>
       /\ ~reply.isError
       /\ DOMAIN reply.body = {req.args.paths[i] : i \in 1..Len(req.args.paths)}

\* the one-level listing of the project root, which holds a link to nothing
C21_ListingFailed ==
  /\ ListingServed
  /\ OneLevel
  /\ ListedDir.val = PROJECT_ROOT
  /\ \E n \in EntriesToList : ~Inspectable(n)
  /\ reply = Failure("ENOENT")


(***************************************************************************)
(* The three traversals side by side: on one directory of a project, the   *)
(* one-level listing, the tree rendering one level deep and the recursive  *)
(* collection (for every suffix the project's files have) are run, and the *)
(* reply holds the names of the directory's entries each of them shows     *)
(***************************************************************************)

\* a project with a directory whose name contains a fragment of the
\* exclusion set, a hidden directory and a nested dependency directory
MixedProject ==
     (PROJECT_ROOT                 :> Dir(<<"myvendor", ".github", "app", "vendor", "r.php">>))
  @@ (In("myvendor")               :> Dir(<<"k.php">>))
  @@ (In("myvendor/k.php")         :> File("k"))
  @@ (In(".github")                :> Dir(<<"w.php">>))
  @@ (In(".github/w.php")          :> File("w"))
  @@ (In("app")                    :> Dir(<<"node_modules", "c.php", "logs.txt">>))
  @@ (In("app/node_modules")       :> Dir(<<"e.php">>))
  @@ (In("app/node_modules/e.php") :> File("e"))
  @@ (In("app/c.php")              :> File("c"))
  @@ (In("app/logs.txt")           :> File("l"))
  @@ (In("vendor")                 :> Dir(<<"v.php">>))
  @@ (In("vendor/v.php")           :> File("v"))
  @@ (In("r.php")                  :> File("r"))

InitExclude ==
  /\ fs \in {Outside @@ TreeProject(es) : es \in RootListings} \cup {Outside @@ MixedProject}
  /\ req = Idle
  /\ log = <<>>
  /\ reply = Success("")
  /\ nops = 0
  /\ NoScan

\* every suffix a file of these projects has
EverySuffix == <<".php", ".txt", ".env", ".keep">>

\* the names shown by the one-level listing: the items of its payload
namesListed(out) ==
  IF out.reply.isError THEN {}
  ELSE {out.reply.body.items[i].name : i \in 1..Len(out.reply.body.items)}

\* the names shown by the tree: the text of each line after the connector,
\* without the slash of a directory
namesRendered(text) ==
  LET ls == Split(text, "\n")
      bare(l) == LET t == SubSeq(l, 5, Len(l))
                 IN IF EndsWith(t, "/") THEN SubSeq(t, 1, Len(t) - 1) ELSE t
  IN {bare(ls[k]) : k \in {k \in 1..Len(ls) : Len(ls[k]) > 0}}

\* the entries of dir the collection reached: a file it returned, a directory
\* it read
namesCollected(f, dir, w) ==
  {n \in {f[dir].entries[i] : i \in 1..Len(f[dir].entries)} :
     \/ \E i \in 1..Len(w.files) : w.files[i] = pathRelative(PROJECT_ROOT, pathJoin(dir, n))
     \/ \E i \in 1..Len(w.log) : w.log[i].op = "readdir" /\ w.log[i].path = pathJoin(dir, n)}

CompareDirs == {"", "src", "src/lib", "storage", "app"}

\* a server that has served no more than MaxCompares - 1 requests serves one
MaxCompares == 1

Call_traversals ==
  \E d \in CompareDirs :
    LET dir     == resolvePath(IF d = "" THEN "." ELSE d).val
        a       == [directory |-> d, recursive |-> FALSE, pattern |-> ""]
        listing == list_files(fs, a)
        tree    == buildTree(fs, dir, "", 0, 1)
        w       == getFilesRecursively(fs, dir, EverySuffix, NoArg)
    IN /\ nops < MaxCompares
       /\ dir \in DOMAIN fs
       /\ fs[dir].kind = "dir"
       /\ Serve("traversals", a,
                Out(fs, listing.log \o tree.log \o w.log,
                    Success([listed    |-> namesListed(listing),
                             rendered  |-> namesRendered(tree.text),
                             collected |-> namesCollected(fs, dir, w)])))

NextExclude == Call_traversals

SpecExclude == InitExclude /\ [][NextExclude]_vars

(***************************************************************************)
(* Properties of the exclusion rule                                        *)
(***************************************************************************)

Compared == req.name = "traversals" /\ nops > 0

ComparedDir == resolvePath(IF req.args.directory = "" THEN "." ELSE req.args.directory).val

ComparedEntries == {fs[ComparedDir].entries[i] : i \in 1..Len(fs[ComparedDir].entries)}

\* the rule: the name starts with a dot, or the path relative to the project
\* contains a fragment of the exclusion set
RuleExcludes(n) ==
  \/ StartsWith(n, ".")
  \/ \E i \in 1..Len(EXCLUDE_DIRS) :
       Includes(pathRelative(PROJECT_ROOT, pathJoin(ComparedDir, n)), EXCLUDE_DIRS[i])

\* C22: the one-level listing, the tree rendering and the recursive collection
\* apply the same exclusion rule: an entry is left out by one exactly when it
\* is left out by the other two, namely when its name starts with a dot or its
\* path relative to the project contains a fragment of the exclusion set.
C22_SameExclusion ==
  Compared =>
    \A n \in ComparedEntries :
      /\ (n \notin reply.body.listed) = RuleExcludes(n)
      /\ (n \notin reply.body.rendered) = RuleExcludes(n)
      /\ (n \notin reply.body.collected) = RuleExcludes(n)

\* the recursive collection alone follows the rule
C22_CollectionFollowsRule ==
  Compared => \A n \in ComparedEntries : (n \notin reply.body.collected) = RuleExcludes(n)

\* the listing and the tree leave out the same entries
C22_ListingAsTree ==
  Compared => reply.body.listed = reply.body.rendered

\* storage/framework: listed and rendered, not collected
C22_FrameworkShown ==
  /\ Compared
  /\ req.args.directory = "storage"
  /\ "framework" \in reply.body.listed
  /\ "framework" \in reply.body.rendered
  /\ "framework" \notin reply.body.collected


(***************************************************************************)
(* The shared RegExp of search_code: its lastIndex at the calls of test    *)
(***************************************************************************)

\* a file of which the scan callback has returned with matches on two
\* lines in a row
ScannedTwoInARow ==
  \E k \in 1..Len(results) :
    \E m \in 1..(Len(results[k].matches) - 1) :
      results[k].matches[m + 1].line = results[k].matches[m].line + 1

\* C23: in search_code the one g-flag regular expression shared by the scan
\* callbacks of all files has lastIndex 0 at every call of regex.test and
\* between any two callbacks, whatever the order in which the callbacks
\* run, so that a line is reported exactly when the line by itself holds
\* the query.
C23_NoCarriedPosition ==
  req.name = "search_code" =>
    /\ regex.lastIndex = 0
    /\ regex.tested \subseteq {0}
    /\ \A k \in 1..Len(results) :
         {results[k].matches[m].line : m \in 1..Len(results[k].matches)}
           = LinesWithQuery(results[k].file)

\* a file with matches on two lines in a row has been scanned, another
\* callback has run after it and a third is still to run: test was called
\* and every call found lastIndex 0
C23_Witness ==
  /\ req.name = "search_code"
  /\ pc = "scanning"
  /\ ScannedTwoInARow
  /\ Cardinality(pending) >= 1
  /\ Cardinality(pending) + 2 <= Len(files)
  /\ regex.tested = {0}
  /\ regex.lastIndex = 0

====
